---- MODULE Spec2Model ----
(***************************************************************************)
(* Device configuration builder and file-backed device registry of the     *)
(* image manager (DeviceImpl, LocalImageImpl.getDevices).                  *)
(*                                                                         *)
(* Representation.                                                         *)
(*  - A JS string is a TLA+ string.  The JS values undefined and null are  *)
(*    the reserved strings Undefined and Null, which no program string     *)
(*    equals.  A JS boolean option is the token "true" / "false".          *)
(*  - A JS number is an integer count of hundredths (18 is 1800, 6.5 is    *)
(*    650); every number of the model has at most two decimals.            *)
(*  - A JS object used as an ordered key/value mapping is a sequence of    *)
(*    <<key, value>> pairs with pairwise distinct keys, in insertion       *)
(*    order.                                                               *)
(*  - A text is the sequence of its pieces: keys, values, "=" and "\n".    *)
(***************************************************************************)
EXTENDS Integers, Sequences, FiniteSets, TLC

VARIABLES
    fs,       \* the disk: deployedPath, lists.json, device directories, config.ini files
    pre,      \* the disk as it was when the last registry operation was called
    ret,      \* the last registry operation: which, on which device, and its outcome
    device,   \* the DeviceImpl object of the builder runs (uuid, cachedList, cachedIni)
    out,      \* the last builder call on device: which, its arguments and its result
    twin,     \* a second DeviceImpl object, created from the same image and options as device
    outTwin,  \* the last builder call on twin
    cache,    \* the cache file of the downloader: whether it exists, and its bytes
    dl,       \* the startDownload call: its position, its streams, its last progress event
    chk,      \* the last checkChecksum call and the one before it
    ex,       \* the extract call: its streams, its position, the SDK link location
    procs     \* the processes that deploy and delete side by side: each one's position

pairVars == <<twin, outTwin>>
dlVars == <<cache, dl, chk, ex>>
raceVars == <<procs>>

vars == <<fs, pre, ret, device, out, twin, outTwin, cache, dl, chk, ex, procs>>

-----------------------------------------------------------------------------
(* Bounds of the model *)

\* how many device names the callers use
NumNames == 2

\* how many entries a caller's overrides object has at most
MaxOverrides == 1

-----------------------------------------------------------------------------
(* JS values *)

Undefined == "<undefined>"
Null == "<null>"

\* v != null
NotNullish(v) == v # Undefined /\ v # Null

\* if (v) for a string | undefined | null
Truthy(v) == v # Undefined /\ v # Null /\ v # ""

\* a ?? b
Coalesce(a, b) == IF NotNullish(a) THEN a ELSE b

Range(s) == {s[i] : i \in DOMAIN s}

-----------------------------------------------------------------------------
(* JS numbers, in hundredths *)

TwoDigits(k) == IF k < 10 THEN "0" \o ToString(k) ELSE ToString(k)

\* Number.prototype.toString: the shortest decimal spelling
toString(n) ==
    LET i == n \div 100
        f == n % 100
    IN  IF f = 0 THEN ToString(i)
        ELSE IF f % 10 = 0 THEN ToString(i) \o "." \o ToString(f \div 10)
        ELSE ToString(i) \o "." \o TwoDigits(f)

\* Number.prototype.toFixed(): rounded to an integer
toFixed(n) == ToString((n + 50) \div 100)

\* Number.prototype.toFixed(2)
toFixed2(n) == ToString(n \div 100) \o "." \o TwoDigits(n % 100)

\* the numbers the model's strings spell
NumberValues == {650, 1300, 1800, 32000, 28800, 108000, 234000, 164800, 247200, 329600}

\* the decimal spellings of n that the model's strings use
Spellings(n) ==
    {toString(n), toFixed2(n), ToString(n \div 100) \o "." \o ToString((n % 100) \div 10)}

NaN == 0 - 1

\* Number(s): the number a decimal string spells
Number(s) ==
    IF \E n \in NumberValues : s \in Spellings(n)
    THEN CHOOSE n \in NumberValues : s \in Spellings(n)
    ELSE NaN

-----------------------------------------------------------------------------
(* JS objects as ordered mappings *)

Keys(m) == {m[i][1] : i \in DOMAIN m}

HasKey(m, k) == \E i \in DOMAIN m : m[i][1] = k

\* m[k]; undefined when the key is absent
Get(m, k) ==
    IF HasKey(m, k) THEN m[CHOOSE i \in DOMAIN m : m[i][1] = k][2] ELSE Undefined

\* m[k] = v: an existing key keeps its position, a new key goes last
Put(m, k, v) ==
    IF HasKey(m, k)
    THEN [i \in DOMAIN m |-> IF m[i][1] = k THEN <<k, v>> ELSE m[i]]
    ELSE Append(m, <<k, v>>)

\* { ...m, ...o }
RECURSIVE Spread(_, _)
Spread(m, o) ==
    IF o = <<>> THEN m ELSE Spread(Put(m, Head(o)[1], Head(o)[2]), Tail(o))

-----------------------------------------------------------------------------
(* The image manager's resolved options and the image of the devices *)

PathSep == "/"

DeployedPath == "/deployed"
ImageBasePath == "/images"
ConfigPath == "/config"
LogPath == "/log"

\* path.resolve(base, name) and path.join(base, name) for a plain name
Resolve(base, name) == base \o PathSep \o name

\* crypto.randomUUID() draws from these
UUIDs == {"u1", "u2"}

\* the images of the model: a pc image and a phone image of the same release
Image(deviceType) ==
    [ deviceType    |-> deviceType,
      apiVersion    |-> "22",
      version       |-> "6.0.0.129",
      targetOS      |-> "HarmonyOS",
      targetVersion |-> "6.0.2",
      releaseType   |-> "Beta1",
      arch          |-> "arm",
      path          |-> <<"system-image", "HarmonyOS-6.0.2", deviceType \o "_all_arm">> ]

Images == {Image("pc"), Image("phone")}

\* ImageBase.getSnakecaseDeviceType (the device types of the model are lower case)
getSnakecaseDeviceType(image) ==
    IF image.deviceType = "pc" THEN "2in1_foldable" ELSE image.deviceType

\* image.getPath().split(',').join(path.sep)
RECURSIVE JoinSep(_)
JoinSep(segs) ==
    IF segs = <<>> THEN ""
    ELSE IF Len(segs) = 1 THEN segs[1]
    ELSE segs[1] \o PathSep \o JoinSep(Tail(segs))

-----------------------------------------------------------------------------
(* Screens and product presets *)

\* a ProductConfigItem; the outer screen fields are optional
ProductConfigItem(name, devModel, ow, oh, od) ==
    [ name                |-> name,
      devModel            |-> devModel,
      screenWidth         |-> "3296",
      screenHeight        |-> "2472",
      screenDiagonal      |-> "18.00",
      screenDensity       |-> "288",
      outerScreenWidth    |-> ow,
      outerScreenHeight   |-> oh,
      outerScreenDiagonal |-> od ]

NoProduct == ProductConfigItem(Undefined, Undefined, Undefined, Undefined, Undefined)

NoScreenOptions == [diagonal |-> NaN, density |-> NaN, height |-> NaN, width |-> NaN]

\* createScreen(options): a raw screen
createScreen(options) == [kind |-> "screen", options |-> options, product |-> NoProduct]

\* createProductPreset(productConfig, deviceType): a ProductPresetImpl
createProductPreset(productConfig) ==
    [kind |-> "preset", options |-> NoScreenOptions, product |-> productConfig]

\* options.screen instanceof ProductPresetImpl
IsProductPreset(screen) == screen.kind = "preset"

\* ProductPresetImpl.toScreen
toScreen(preset) ==
    createScreen([ diagonal |-> Number(preset.product.screenDiagonal),
                   density  |-> Number(preset.product.screenDensity),
                   height   |-> Number(preset.product.screenHeight),
                   width    |-> Number(preset.product.screenWidth) ])

RawScreen == createScreen([diagonal |-> 650, density |-> 32000, height |-> 234000, width |-> 108000])

\* the product presets of the model: every subset of the outer screen fields
Presets ==
    { createProductPreset(ProductConfigItem("MateBook Fold", "PCEMU-FD05", ow, oh, od)) :
        ow \in {Undefined, "2472"}, oh \in {Undefined, "1648"}, od \in {Undefined, "13"} }

FoldPreset == createProductPreset(ProductConfigItem("MateBook Fold", "PCEMU-FD05", "2472", "1648", "13"))

Screens == {RawScreen} \cup Presets

-----------------------------------------------------------------------------
(* DeviceImpl *)

AllNames == <<"a", "b", "c", "d">>
Names == {AllNames[i] : i \in 1..NumNames}

NoList == [name |-> Undefined]

\* a constructor that names the device after the uuid it drew
createDevice_NameFromUuid(image, options, uuid) ==
    [ image      |-> image,
      options    |-> [options EXCEPT !.name = uuid],
      uuid       |-> uuid,
      cachedList |-> [set |-> FALSE, val |-> [name |-> Undefined]],
      cachedIni  |-> [set |-> FALSE, val |-> <<>>] ]

\* new DeviceImpl(image, options), the constructor having drawn uuid
createDevice(image, options, uuid) ==
    [ image      |-> image,
      options    |-> options,
      uuid       |-> uuid,
      cachedList |-> [set |-> FALSE, val |-> NoList],
      cachedIni  |-> [set |-> FALSE, val |-> <<>>] ]

DeviceOptions(name, screen) ==
    [name |-> name, cpuNumber |-> 400, diskSize |-> 614400, memorySize |-> 409600, screen |-> screen]

setUuid(d, uuid) == [d EXCEPT !.uuid = uuid]
getUuid(d) == d.uuid
setCachedList(d, list) == [d EXCEPT !.cachedList = [set |-> TRUE, val |-> list]]
setCachedIni(d, ini) == [d EXCEPT !.cachedIni = [set |-> TRUE, val |-> ini]]

\* DeviceImpl.getScreen
getScreen(d) ==
    IF IsProductPreset(d.options.screen) THEN toScreen(d.options.screen) ELSE d.options.screen

\* DeviceImpl.buildList
buildList(d) ==
    IF d.cachedList.set THEN d.cachedList.val
    ELSE LET screen == getScreen(d).options
             image == d.image
             isPreset == IsProductPreset(d.options.screen)
             productConfig == d.options.screen.product
         IN [ name             |-> d.options.name,
              apiVersion       |-> image.apiVersion,
              cpuNumber        |-> toFixed(d.options.cpuNumber),
              diagonalSize     |-> toFixed2(screen.diagonal),
              resolutionHeight |-> toFixed(screen.height),
              resolutionWidth  |-> toFixed(screen.width),
              density          |-> toFixed(screen.density),
              memoryRamSize    |-> toFixed(d.options.memorySize),
              dataDiskSize     |-> toFixed(d.options.diskSize),
              path             |-> Resolve(DeployedPath, d.options.name),
              type             |-> getSnakecaseDeviceType(image),
              uuid             |-> d.uuid,
              version          |-> image.version,
              imageDir         |-> JoinSep(image.path) \o PathSep,
              showVersion      |-> image.targetOS \o " " \o image.targetVersion \o "(" \o image.apiVersion \o ")",
              sdkPath          |-> ImageBasePath,
              configPath       |-> ConfigPath,
              logPath          |-> LogPath,
              apiName          |-> image.targetVersion,
              abi              |-> image.arch,
              harmonyOSVersion |-> image.targetOS \o "-" \o image.targetVersion,
              guestVersion     |-> image.targetOS \o " " \o image.version \o "(" \o image.releaseType \o ")",
              devModel         |-> IF isPreset /\ Truthy(productConfig.devModel)
                                   THEN productConfig.devModel ELSE Undefined,
              model            |-> IF isPreset /\ Truthy(productConfig.name)
                                   THEN productConfig.name ELSE Undefined ]

-----------------------------------------------------------------------------
(* DeviceImpl.buildIni and DeviceImpl.toIniString *)

\* Device.IniOptions; an absent option is Undefined, absent overrides are <<>>
IniOptions(vendorCountry, isPublic, overrides) ==
    [vendorCountry |-> vendorCountry, isPublic |-> isPublic, overrides |-> overrides]

DefaultIniOptions == IniOptions(Undefined, Undefined, <<>>)

\* hasOuterScreen that forgets the outer diagonal
hasOuterScreen_NoDiagonal(listConfig, screen) ==
    /\ listConfig.type = "2in1_foldable"
    /\ IsProductPreset(screen)
    /\ NotNullish(screen.product.outerScreenWidth)
    /\ NotNullish(screen.product.outerScreenHeight)

\* const hasOuterScreen = is2in1Foldable && productConfig?.outerScreenWidth != null && ...
hasOuterScreen(listConfig, screen) ==
    /\ listConfig.type = "2in1_foldable"
    /\ IsProductPreset(screen)
    /\ NotNullish(screen.product.outerScreenWidth)
    /\ NotNullish(screen.product.outerScreenHeight)
    /\ NotNullish(screen.product.outerScreenDiagonal)

\* singleFields that takes the preset's primary fields in dual-screen mode
singleFields_Primary(useDualScreen, productConfig, screen) ==
    [ diagonal |-> IF useDualScreen THEN productConfig.screenDiagonal ELSE toString(screen.diagonal),
      height   |-> IF useDualScreen THEN productConfig.screenHeight ELSE toString(screen.height),
      width    |-> IF useDualScreen THEN productConfig.screenWidth ELSE toString(screen.width) ]

\* singleDiagonal, singleHeight, singleWidth
singleFields(useDualScreen, productConfig, screen) ==
    [ diagonal |-> IF useDualScreen THEN productConfig.outerScreenDiagonal ELSE toString(screen.diagonal),
      height   |-> IF useDualScreen THEN productConfig.outerScreenHeight ELSE toString(screen.height),
      width    |-> IF useDualScreen THEN productConfig.outerScreenWidth ELSE toString(screen.width) ]

\* doubleFields that prints the primary diagonal as a number
doubleFields_Printed(useDualScreen, productConfig) ==
    [ diagonal |-> IF useDualScreen THEN toString(Number(productConfig.screenDiagonal)) ELSE Undefined,
      height   |-> IF useDualScreen THEN productConfig.screenHeight ELSE Undefined,
      width    |-> IF useDualScreen THEN productConfig.screenWidth ELSE Undefined ]

\* doubleDiagonal, doubleHeight, doubleWidth
doubleFields(useDualScreen, productConfig) ==
    [ diagonal |-> IF useDualScreen THEN productConfig.screenDiagonal ELSE Undefined,
      height   |-> IF useDualScreen THEN productConfig.screenHeight ELSE Undefined,
      width    |-> IF useDualScreen THEN productConfig.screenWidth ELSE Undefined ]

\* the object literal of buildIni, overrides spread as its last member
iniLiteral(d, options, listConfig, single, useDualScreen) ==
    LET image == d.image
        base ==
          << <<"name", listConfig.name>>,
             <<"deviceType", listConfig.type>>,
             <<"deviceModel", listConfig.devModel>>,
             <<"productModel", listConfig.model>>,
             <<"vendorCountry", Coalesce(options.vendorCountry, "CN")>>,
             <<"uuid", d.uuid>>,
             <<"configPath", listConfig.configPath>>,
             <<"logPath", listConfig.logPath>>,
             <<"sdkPath", listConfig.sdkPath>>,
             <<"imageSubPath", listConfig.imageDir>>,
             <<"instancePath", listConfig.path>>,
             <<"os.osVersion", image.targetOS \o " " \o image.targetVersion \o "(" \o image.apiVersion \o ")">>,
             <<"os.apiVersion", image.apiVersion>>,
             <<"os.softwareVersion", image.version>>,
             <<"os.isPublic", IF Coalesce(options.isPublic, "true") = "true" THEN "true" ELSE "false">>,
             <<"hw.cpu.arch", listConfig.abi>>,
             <<"hw.cpu.ncore", listConfig.cpuNumber>>,
             <<"hw.lcd.density", toFixed(getScreen(d).options.density)>>,
             <<"hw.lcd.single.diagonalSize", single.diagonal>>,
             <<"hw.lcd.single.height", single.height>>,
             <<"hw.lcd.single.width", single.width>>,
             <<"hw.lcd.number", IF useDualScreen THEN "2" ELSE "1">>,
             <<"hw.ramSize", listConfig.memoryRamSize>>,
             <<"hw.dataPartitionSize", listConfig.dataDiskSize>>,
             <<"isCustomize", IF IsProductPreset(d.options.screen) THEN "false" ELSE "true">>,
             <<"hw.hdc.port", "notset">> >>
    IN  Spread(base, options.overrides)

\* the assignments of buildIni after its object literal
iniDerived(ini, useDualScreen, double, screen) ==
    LET productConfig == screen.product
        a == IF useDualScreen /\ NotNullish(double.diagonal) /\ NotNullish(double.height)
                  /\ NotNullish(double.width)
             THEN Put(Put(Put(ini, "hw.lcd.double.diagonalSize", double.diagonal),
                          "hw.lcd.double.height", double.height),
                      "hw.lcd.double.width", double.width)
             ELSE ini
        phy == IsProductPreset(screen) /\ ~useDualScreen
        b == IF phy /\ Truthy(productConfig.outerScreenHeight)
             THEN Put(a, "hw.phy.height", productConfig.outerScreenHeight) ELSE a
        c == IF phy /\ Truthy(productConfig.outerScreenWidth)
             THEN Put(b, "hw.phy.width", productConfig.outerScreenWidth) ELSE b
    IN  c

\* DeviceImpl.buildIni(options)
buildIni(d, options) ==
    IF d.cachedIni.set THEN d.cachedIni.val
    ELSE LET listConfig == buildList(d)
             screen == getScreen(d).options
             useDualScreen == hasOuterScreen(listConfig, d.options.screen)
             productConfig == d.options.screen.product
             single == singleFields(useDualScreen, productConfig, screen)
             double == doubleFields(useDualScreen, productConfig)
         IN  iniDerived(iniLiteral(d, options, listConfig, single, useDualScreen),
                        useDualScreen, double, d.options.screen)

\* iniFilter that keeps null values
iniFilter_KeepNull(ini) == SelectSeq(ini, LAMBDA e : e[2] # Undefined)

\* .filter(([, value]) => value !== undefined && value !== null)
iniFilter(ini) == SelectSeq(ini, LAMBDA e : e[2] # Undefined /\ e[2] # Null)

\* .map(([key, value]) => `${key}=${value}`).join('\n')
RECURSIVE iniJoin(_)
iniJoin(entries) ==
    IF entries = <<>> THEN <<>>
    ELSE IF Len(entries) = 1 THEN <<entries[1][1], "=", entries[1][2]>>
    ELSE <<entries[1][1], "=", entries[1][2], "\n">> \o iniJoin(Tail(entries))

\* DeviceImpl.toIniString: it serialises this.buildIni(), called without options
toIniString(d) == iniJoin(iniFilter(buildIni(d, DefaultIniOptions))) \o <<"\n">>

-----------------------------------------------------------------------------
(* INI.parse of a configuration text, as LocalImageImpl.getDevices uses it  *)

\* the lines of a text from position from on: the pieces between the "\n" pieces
RECURSIVE textLinesFrom(_, _)
textLinesFrom(text, from) ==
    IF from > Len(text) THEN <<>>
    ELSE LET nl == {i \in from..Len(text) : text[i] = "\n"}
         IN  IF nl = {} THEN <<SubSeq(text, from, Len(text))>>
             ELSE LET e == CHOOSE i \in nl : \A j \in nl : i <= j
                  IN  <<SubSeq(text, from, e - 1)>> \o textLinesFrom(text, e + 1)

\* text.split('\n'), without the empty piece after a final "\n"
textLines(text) == textLinesFrom(text, 1)

\* one entry per line key=value, in the order of the lines; other lines are skipped
RECURSIVE parseLines(_, _)
parseLines(lines, ini) ==
    IF lines = <<>> THEN ini
    ELSE LET l == Head(lines)
         IN  parseLines(Tail(lines),
                        IF Len(l) = 3 /\ l[2] = "=" THEN Put(ini, l[1], l[3]) ELSE ini)

\* INI.parse(text)
parseIni(text) == parseLines(textLines(text), <<>>)

-----------------------------------------------------------------------------
(* The disk: deployedPath, lists.json, the device directories, the config.ini files *)

\* lists.json: absent, or the JSON value it holds. kind "array" has the records
\* in items; the other kinds are the JSON values null, a number, an object.
AbsentLists == [kind |-> "absent", items |-> <<>>]
ArrayLists(items) == [kind |-> "array", items |-> items]
NonArrayKinds == {"null", "number", "object"}

NoFs == [deployedDir |-> FALSE, lists |-> AbsentLists, dirs |-> {}, files |-> {}]

\* fs.existsSync(listsPath) (lists.json, when present, is a regular file)
existsLists(disk) == disk.lists.kind # "absent"

\* fs.existsSync(dir)
existsDir(disk, dir) == dir \in disk.dirs

\* fs.existsSync(file)
existsFile(disk, file) == \E f \in disk.files : f[1] = file

\* fs.readFileSync(file, 'utf-8')
readFile(disk, file) == (CHOOSE f \in disk.files : f[1] = file)[2]

\* a write that adds to what lists.json holds instead of replacing it
writeLists_Append(disk, items) == [disk EXCEPT !.lists = ArrayLists(@.items \o items)]

\* fs.writeFileSync(listsPath, JSON.stringify(items, null, 2))
writeLists(disk, items) == [disk EXCEPT !.lists = ArrayLists(items)]

\* fs.mkdirSync(dir, { recursive: true })
mkdirSync(disk, dir) == [disk EXCEPT !.dirs = @ \cup {dir}]

\* fs.writeFileSync(file, text)
writeFileSync(disk, file, text) ==
    [disk EXCEPT !.files = {f \in @ : f[1] # file} \cup {<<file, text>>}]

\* fs.rmSync(dir, { recursive: true }) of an existing directory
rmSync(disk, dir) ==
    [disk EXCEPT !.dirs = @ \ {dir},
                 !.files = {f \in @ : f[1] # Resolve(dir, "config.ini")}]

\* JSON.parse(fs.readFileSync(listsPath, 'utf-8')) ?? []
parseListsOrEmpty(disk) == IF disk.lists.kind = "null" THEN ArrayLists(<<>>) ELSE disk.lists

\* Array.isArray(lists)
isArray(lists) == lists.kind = "array"

-----------------------------------------------------------------------------
(* DeviceImpl.isDeployed, deploy and delete; LocalImageImpl.getDevices *)

\* lists.some that does not look at config.ini
someDeployed_NameOnly(disk, items, name) ==
    \E i \in DOMAIN items : items[i].name = name

\* lists.some(item => item.name === name && fs.existsSync(path.resolve(item.path, 'config.ini')))
someDeployed(disk, items, name) ==
    \E i \in DOMAIN items :
        items[i].name = name /\ existsFile(disk, Resolve(items[i].path, "config.ini"))

\* DeviceImpl.isDeployed: "true", "false", or the TypeError of calling .some on a
\* value that is no array
isDeployed(disk, d) ==
    IF ~existsLists(disk) THEN "false"
    ELSE LET lists == parseListsOrEmpty(disk)
         IN  IF ~isArray(lists) THEN "TypeError"
             ELSE IF someDeployed(disk, lists.items, d.options.name) THEN "true" ELSE "false"

\* lists.find that finds nothing
listsFind_Never(items, name) == FALSE

\* lists.find(item => item.name === listConfig.name)
listsFind(items, name) == \E i \in DOMAIN items : items[i].name = name

\* the check of the target directory, left out
targetExists_Never(disk, dir) == FALSE

\* fs.existsSync(listConfig.path) in deploy
targetExists(disk, dir) == existsDir(disk, dir)

Outcome(disk, outcome) == [disk |-> disk, outcome |-> outcome]

\* DeviceImpl.deploy: the disk after the call and how the call ended
deploy(disk, d) ==
    LET deployed == isDeployed(disk, d)
        made == [disk EXCEPT !.deployedDir = TRUE]
        listConfig == buildList(d)
        lists == parseListsOrEmpty(made)
    IN  IF deployed = "TypeError" THEN Outcome(disk, "TypeError")
        ELSE IF deployed = "true" THEN Outcome(disk, "ok")
        ELSE IF targetExists(made, listConfig.path) THEN Outcome(made, "DEVICE_ALREADY_DEPLOYED")
        ELSE IF ~existsLists(made) THEN Outcome(writeLists(made, <<listConfig>>), "ok")
        ELSE IF ~isArray(lists) THEN Outcome(made, "LIST_JSON_NOT_AN_ARRAY")
        ELSE IF listsFind(lists.items, listConfig.name) THEN Outcome(made, "DEVICE_ALREADY_DEPLOYED")
        ELSE Outcome(writeFileSync(mkdirSync(writeLists(made, Append(lists.items, listConfig)),
                                             listConfig.path),
                                   Resolve(listConfig.path, "config.ini"), toIniString(d)),
                     "ok")

\* lists.findIndex(item => item.name === name), 1-based; 0 for the -1 of JS
findIndex(items, name) ==
    IF \E i \in DOMAIN items : items[i].name = name
    THEN CHOOSE i \in DOMAIN items : items[i].name = name /\ \A j \in 1..(i - 1) : items[j].name # name
    ELSE 0

\* splice that removes the last element instead
splice_Last(items, index) == SubSeq(items, 1, Len(items) - 1)

\* lists.splice(index, 1)
splice(items, index) == SubSeq(items, 1, index - 1) \o SubSeq(items, index + 1, Len(items))

\* DeviceImpl.delete: the disk after the call and how the call ended
delete(disk, d) ==
    IF ~existsLists(disk) THEN Outcome(disk, "LISTS_FILE_NOT_FOUND")
    ELSE LET lists == parseListsOrEmpty(disk)
             index == findIndex(lists.items, d.options.name)
             written == writeLists(disk, splice(lists.items, index))
             dir == buildList(d).path
         IN  IF ~isArray(lists) THEN Outcome(disk, "TypeError")
             ELSE IF index = 0 THEN Outcome(disk, "DEVICE_NOT_FOUND")
             ELSE IF ~existsDir(written, dir) THEN Outcome(written, "ENOENT")
             ELSE Outcome(rmSync(written, dir), "ok")

\* the product config of an image's device type (LocalImageImpl.getProductConfig)
ProductCatalog(image) == IF image.deviceType = "pc" THEN {FoldPreset.product} ELSE {}

\* LocalImageImpl.createScreenLike
createScreenLike(image, item) ==
    LET raw == createScreen([ diagonal |-> Number(item.diagonalSize),
                              height   |-> Number(item.resolutionHeight),
                              width    |-> Number(item.resolutionWidth),
                              density  |-> Number(item.density) ])
        found == {c \in ProductCatalog(image) : c.name = item.model}
    IN  IF ~Truthy(item.model) \/ found = {} THEN raw
        ELSE LET c == CHOOSE x \in found : TRUE
             IN  IF \/ c.screenDiagonal # item.diagonalSize
                    \/ c.screenHeight # item.resolutionHeight
                    \/ c.screenWidth # item.resolutionWidth
                    \/ c.screenDensity # item.density
                 THEN raw
                 ELSE createProductPreset(c)

\* the device getDevices makes of one lists.json item and its config.ini
loadDevice(disk, image, item, uuid) ==
    setCachedIni(
        setCachedList(
            setUuid(createDevice(image,
                                 [ name       |-> item.name,
                                   cpuNumber  |-> Number(item.cpuNumber),
                                   diskSize   |-> Number(item.dataDiskSize),
                                   memorySize |-> Number(item.memoryRamSize),
                                   screen     |-> createScreenLike(image, item) ],
                                 uuid),
                    item.uuid),
            item),
        parseIni(readFile(disk, Resolve(item.path, "config.ini"))))

\* the items of lists.json that getDevices keeps
keptItem(disk, image, item) ==
    /\ Resolve(ImageBasePath, item.imageDir) = Resolve(ImageBasePath, JoinSep(image.path)) \o PathSep
    /\ existsFile(disk, Resolve(item.path, "config.ini"))
    /\ existsDir(disk, item.path)

\* LocalImageImpl.getDevices
getDevices(disk, image, uuid) ==
    IF ~existsLists(disk) \/ ~isArray(disk.lists) THEN <<>>
    ELSE LET kept == SelectSeq(disk.lists.items, LAMBDA item : keptItem(disk, image, item))
         IN  [i \in DOMAIN kept |-> loadDevice(disk, image, kept[i], uuid)]

-----------------------------------------------------------------------------
(* The registry runs: deploy, delete, isDeployed and getDevices, one at a time *)

\* the devices the callers deploy and delete: the first name with a raw screen or
\* with the fold preset, every other name with a raw screen
RegDevices ==
    { createDevice(Image("pc"), DeviceOptions(name, RawScreen), "u1") : name \in Names }
    \cup { createDevice(Image("pc"), DeviceOptions(AllNames[1], FoldPreset), "u1") }

NoRet == [op |-> "none", name |-> Undefined, image |-> Undefined, outcome |-> "none", devices |-> <<>>]

Deploy(d) ==
    LET r == deploy(fs, d)
    IN  /\ fs' = r.disk
        /\ pre' = fs
        /\ ret' = [NoRet EXCEPT !.op = "deploy", !.name = d.options.name, !.outcome = r.outcome,
                                !.devices = <<d>>]
        /\ UNCHANGED <<device, out>>
        /\ UNCHANGED <<pairVars, raceVars, dlVars>>

Delete(d) ==
    LET r == delete(fs, d)
    IN  /\ fs' = r.disk
        /\ pre' = fs
        /\ ret' = [NoRet EXCEPT !.op = "delete", !.name = d.options.name, !.outcome = r.outcome,
                                !.devices = <<d>>]
        /\ UNCHANGED <<device, out>>
        /\ UNCHANGED <<pairVars, raceVars, dlVars>>

IsDeployed(d) ==
    /\ pre' = fs
    /\ ret' = [NoRet EXCEPT !.op = "isDeployed", !.name = d.options.name,
                            !.outcome = isDeployed(fs, d), !.devices = <<d>>]
    /\ UNCHANGED <<fs, device, out>>
    /\ UNCHANGED <<pairVars, raceVars, dlVars>>

GetDevices(image, uuid) ==
    /\ pre' = fs
    /\ ret' = [NoRet EXCEPT !.op = "getDevices", !.image = image.deviceType, !.outcome = "ok",
                            !.devices = getDevices(fs, image, uuid)]
    /\ UNCHANGED <<fs, device, out>>
    /\ UNCHANGED <<pairVars, raceVars, dlVars>>

\* a caller deploys a device whose name and target directory are not in use and, the
\* deploy having succeeded, deletes it at once; pre is the disk before the deploy
AddThenRemove(d) ==
    LET added == deploy(fs, d)
        removed == delete(added.disk, d)
    IN  /\ fs.lists.kind \in {"absent", "array"}
        /\ ~listsFind(fs.lists.items, d.options.name)
        /\ ~existsDir(fs, buildList(d).path)
        /\ added.outcome = "ok"
        /\ fs' = removed.disk
        /\ pre' = fs
        /\ ret' = [NoRet EXCEPT !.op = "deploy+delete", !.name = d.options.name,
                                !.outcome = removed.outcome, !.devices = <<d>>]
        /\ UNCHANGED <<device, out>>
        /\ UNCHANGED <<pairVars, raceVars, dlVars>>

\* the disks the program starts on: nothing yet, or a deployed directory with no
\* lists.json, an empty one, or one that holds no array; a stray directory may be in it
InitDisks ==
    {NoFs} \cup
    { [deployedDir |-> TRUE, lists |-> l, dirs |-> ds, files |-> {}] :
        l \in {AbsentLists, ArrayLists(<<>>)} \cup {[kind |-> k, items |-> <<>>] : k \in NonArrayKinds},
        ds \in {{}, {Resolve(DeployedPath, AllNames[1])}} }

-----------------------------------------------------------------------------
(* deploy and delete as runs of independent processes on one disk: every    *)
(* file system call is a step of its own, and the list a process read stays *)
(* in its memory until it writes                                            *)

\* the processes; one that has finished a call may start another
Procs == {"p", "q"}

\* the names the processes deploy and delete
RaceNames == {AllNames[1], AllNames[2]}

\* the device a process makes for a name
RaceDevice(name) == createDevice(Image("pc"), DeviceOptions(name, RawScreen), "u1")

\* a process outside a call: op and name of its last call, the lists it read (snapshot),
\* how the call ended, whether the call wrote lists.json (wrote), whether that is the
\* last write lists.json received (latest), and whether another process wrote lists.json
\* between this call's look at the file and its write (stale)
NoProc == [ op |-> "none", name |-> Undefined, pc |-> "idle", snapshot |-> <<>>,
            outcome |-> "none", wrote |-> FALSE, latest |-> FALSE, stale |-> FALSE ]

NoProcs == [p \in Procs |-> NoProc]

\* a process may start a call
AtRest(p) == procs[p].pc \in {"idle", "done"}

\* the call of process p ends
Done(proc, outcome) == [proc EXCEPT !.pc = "done", !.outcome = outcome]

\* the positions between a call's look at lists.json and its write
HoldsSnapshot(proc) == proc.pc \in {"add-create", "add-write", "rem-write"}

\* process p has written lists.json: its write is the latest, no other one is, and what
\* the other processes hold is stale
Wrote(p, proc) ==
    [q \in Procs |-> IF q = p THEN [proc EXCEPT !.wrote = TRUE, !.latest = TRUE]
                     ELSE [procs[q] EXCEPT !.latest = FALSE,
                                           !.stale = @ \/ HoldsSnapshot(procs[q])]]

\* lists.push that drops what was read
pushRecord_Replace(lists, listConfig) == <<listConfig>>

\* lists.push(listConfig)
pushRecord(lists, listConfig) == Append(lists, listConfig)

\* deploy, if (await this.isDeployed()) return
AddBegin(p, name) ==
    LET deployed == isDeployed(fs, RaceDevice(name))
        proc == [NoProc EXCEPT !.op = "add", !.name = name]
    IN  /\ AtRest(p)
        /\ procs' = [procs EXCEPT ![p] =
                        IF deployed = "TypeError" THEN Done(proc, "TypeError")
                        ELSE IF deployed = "true" THEN Done(proc, "ok")
                        ELSE [proc EXCEPT !.pc = "add-target"]]
        /\ UNCHANGED <<fs, pre, ret, device, out, pairVars, dlVars>>

\* deploy, mkdirSync(deployedPath) and the check of the device directory
AddTarget(p) ==
    LET made == [fs EXCEPT !.deployedDir = TRUE]
        listConfig == buildList(RaceDevice(procs[p].name))
    IN  /\ procs[p].pc = "add-target"
        /\ fs' = made
        /\ procs' = [procs EXCEPT ![p] =
                        IF targetExists(made, listConfig.path)
                        THEN Done(@, "DEVICE_ALREADY_DEPLOYED")
                        ELSE [@ EXCEPT !.pc = "add-exists"]]
        /\ UNCHANGED <<pre, ret, device, out, pairVars, dlVars>>

\* deploy, if (!fs.existsSync(listsPath))
AddExists(p) ==
    /\ procs[p].pc = "add-exists"
    /\ procs' = [procs EXCEPT ![p].pc = IF existsLists(fs) THEN "add-read" ELSE "add-create"]
    /\ UNCHANGED <<fs, pre, ret, device, out, pairVars, dlVars>>

\* deploy, return fs.writeFileSync(listsPath, JSON.stringify([listConfig], null, 2))
AddCreate(p) ==
    LET listConfig == buildList(RaceDevice(procs[p].name))
    IN  /\ procs[p].pc = "add-create"
        /\ fs' = writeLists(fs, pushRecord(<<>>, listConfig))
        /\ procs' = Wrote(p, Done(procs[p], "ok"))
        /\ UNCHANGED <<pre, ret, device, out, pairVars, dlVars>>

\* deploy, the read of lists.json and the checks on what was read
AddRead(p) ==
    LET lists == parseListsOrEmpty(fs)
    IN  /\ procs[p].pc = "add-read"
        /\ procs' = [procs EXCEPT ![p] =
                        IF ~isArray(lists) THEN Done(@, "LIST_JSON_NOT_AN_ARRAY")
                        ELSE IF listsFind(lists.items, @.name)
                             THEN Done(@, "DEVICE_ALREADY_DEPLOYED")
                        ELSE [@ EXCEPT !.pc = "add-write", !.snapshot = lists.items]]
        /\ UNCHANGED <<fs, pre, ret, device, out, pairVars, dlVars>>

\* deploy, lists.push(listConfig) and the write of lists.json
AddWrite(p) ==
    LET listConfig == buildList(RaceDevice(procs[p].name))
    IN  /\ procs[p].pc = "add-write"
        /\ fs' = writeLists(fs, pushRecord(procs[p].snapshot, listConfig))
        /\ procs' = Wrote(p, [procs[p] EXCEPT !.pc = "add-config"])
        /\ UNCHANGED <<pre, ret, device, out, pairVars, dlVars>>

\* deploy, the device directory and its config.ini
AddConfig(p) ==
    LET d == RaceDevice(procs[p].name)
        listConfig == buildList(d)
    IN  /\ procs[p].pc = "add-config"
        /\ fs' = writeFileSync(mkdirSync(fs, listConfig.path),
                               Resolve(listConfig.path, "config.ini"), toIniString(d))
        /\ procs' = [procs EXCEPT ![p] = Done(@, "ok")]
        /\ UNCHANGED <<pre, ret, device, out, pairVars, dlVars>>

\* delete, the read of lists.json and the search for the name
RemRead(p, name) ==
    LET lists == parseListsOrEmpty(fs)
        proc == [NoProc EXCEPT !.op = "remove", !.name = name]
    IN  /\ AtRest(p)
        /\ procs' = [procs EXCEPT ![p] =
                        IF ~existsLists(fs) THEN Done(proc, "LISTS_FILE_NOT_FOUND")
                        ELSE IF ~isArray(lists) THEN Done(proc, "TypeError")
                        ELSE IF findIndex(lists.items, name) = 0 THEN Done(proc, "DEVICE_NOT_FOUND")
                        ELSE [proc EXCEPT !.pc = "rem-write", !.snapshot = lists.items]]
        /\ UNCHANGED <<fs, pre, ret, device, out, pairVars, dlVars>>

\* delete, lists.splice(index, 1) and the write of lists.json
RemWrite(p) ==
    LET items == procs[p].snapshot
    IN  /\ procs[p].pc = "rem-write"
        /\ fs' = writeLists(fs, splice(items, findIndex(items, procs[p].name)))
        /\ procs' = Wrote(p, [procs[p] EXCEPT !.pc = "rem-rm"])
        /\ UNCHANGED <<pre, ret, device, out, pairVars, dlVars>>

\* delete, fs.rmSync of the device directory
RemRm(p) ==
    LET dir == buildList(RaceDevice(procs[p].name)).path
    IN  /\ procs[p].pc = "rem-rm"
        /\ IF existsDir(fs, dir)
           THEN fs' = rmSync(fs, dir) /\ procs' = [procs EXCEPT ![p] = Done(@, "ok")]
           ELSE fs' = fs /\ procs' = [procs EXCEPT ![p] = Done(@, "ENOENT")]
        /\ UNCHANGED <<pre, ret, device, out, pairVars, dlVars>>

\* the registries the processes start on: lists.json absent, or an array of records with
\* distinct names, each deployed with its directory and config.ini or left without them
RaceDisks ==
    {NoFs} \cup
    { [ deployedDir |-> TRUE,
        lists |-> ArrayLists([i \in 1..Len(names) |-> buildList(RaceDevice(names[i]))]),
        dirs |-> {buildList(RaceDevice(n)).path : n \in made},
        files |-> {<<Resolve(buildList(RaceDevice(n)).path, "config.ini"),
                     toIniString(RaceDevice(n))>> : n \in made} ] :
        names \in {<<>>, <<AllNames[1]>>, <<AllNames[2]>>, <<AllNames[1], AllNames[2]>>,
                   <<AllNames[2], AllNames[1]>>},
        made \in SUBSET RaceNames }

-----------------------------------------------------------------------------
(* ImageDownloaderImpl: the asset, the cache file and the pieces of        *)
(* startDownload.  A byte count is a plain integer; a quotient of two      *)
(* numbers (a percentage, a rate in KB or MB) is an exact fraction.        *)

\* how many bytes the remote asset has
AssetLen == 3

\* the asset the URL serves: byte i has the value i
Asset == [i \in 1..AssetLen |-> i]

\* the byte of a file that some other content left at the cache path
StaleByte == 0

\* the cache file <cachePath>/<basename of url>
\* and the directory cachePath it lies in
NoCache == [dir |-> FALSE, exists |-> FALSE, bytes |-> <<>>]
CacheFile(bytes) == [dir |-> TRUE, exists |-> TRUE, bytes |-> bytes]

\* if (!fs.existsSync(cachePath)) fs.mkdirSync(cachePath, { recursive: true })
mkdirCache(c) == [c EXCEPT !.dir = TRUE]

\* fs.rmSync(cacheFsPath, { force: true })
rmForce(c) == [c EXCEPT !.exists = FALSE, !.bytes = <<>>]

\* fs.existsSync(cacheFsPath) ? fs.statSync(cacheFsPath).size : 0
startByteOf(c) == IF c.exists THEN Len(c.bytes) ELSE 0

\* headers: startByte > 0 ? { Range: `bytes=${startByte}-` } : {}
rangeHeader(startByte) ==
    IF startByte > 0 THEN "bytes=" \o ToString(startByte) \o "-" ELSE Undefined

\* validateStatus that accepts every status
validateStatus_Any(status) == TRUE

\* validateStatus: status => (status === 200 || status === 206)
validateStatus(status) == status = 200 \/ status = 206

\* isPartialContent that takes every accepted response for a partial one
isPartialContent_Any(status) == TRUE

\* const isPartialContent = response.status === 206
isPartialContent(status) == status = 206

\* writeStart that is always 0
writeStart_Zero(startByte, partial) == 0

\* const writeStart = (startByte > 0 && isPartialContent) ? startByte : 0
writeStart(startByte, partial) == IF startByte > 0 /\ partial THEN startByte ELSE 0

\* writeFlags that always opens the file for (over)writing
writeFlags_Truncate(start) == "w"

\* const writeFlags = writeStart > 0 ? 'a' : 'w'
writeFlags(start) == IF start > 0 THEN "a" ELSE "w"

\* if (startByte > 0 && !isPartialContent) fs.rmSync(cacheFsPath, { force: true })
discardStale(c, startByte, partial) == IF startByte > 0 /\ ~partial THEN rmForce(c) ELSE c

\* fs.createWriteStream(cacheFsPath, { flags, start }): 'w' creates or truncates the
\* file, 'a' creates it when missing and keeps its bytes
createWriteStream(c, flags) ==
    IF flags = "w" THEN CacheFile(<<>>)
    ELSE IF c.exists THEN c ELSE CacheFile(<<>>)

\* one chunk piped into the write stream: with 'a' it lands at the end of the file, with
\* 'w' at the stream's position, which is the end of what the stream wrote so far
writeChunk(c, chunk) == CacheFile(c.bytes \o chunk)

\* the statuses a server answers with
OtherStatuses == {304, 404, 416, 500}
Statuses == {200, 206} \cup OtherStatuses

\* the body of a response with an accepted status to a request for bytes from offset on
responseBody(status, offset) ==
    IF status = 206 THEN SubSeq(Asset, offset + 1, AssetLen) ELSE Asset

\* the responses the server can give to a request whose Range starts at offset (0: no
\* Range header): 206 only to a range request inside the asset, 200 with the whole asset
\* (a server without range support), or a status that is neither
Responses(offset) ==
    (IF offset > 0 /\ offset < AssetLen THEN {206} ELSE {}) \cup {200} \cup OtherStatuses

-----------------------------------------------------------------------------
(* createProgressTransformer *)

RECURSIVE GCD(_, _)
GCD(a, b) == IF b = 0 THEN a ELSE GCD(b, a % b)

\* the number n / d, in lowest terms
Frac(n, d) == LET g == GCD(n, d) IN IF g = 0 THEN [n |-> 0, d |-> 1] ELSE [n |-> n \div g, d |-> d \div g]
FracZero == Frac(0, 1)
FracLeq(a, b) == a.n * b.d <= b.n * a.d
\* Math.max(0, a - b)
FracMonus(a, b) == IF FracLeq(a, b) THEN FracZero ELSE Frac(a.n * b.d - b.n * a.d, a.d * b.d)

bytesPerKB == 1024
bytesPerMB == bytesPerKB * 1024

\* a number the transport does not know (undefined)
NoNumber == 0 - 1

\* x ?? 0 on a number
OrZero(x) == IF x = NoNumber THEN 0 ELSE x

\* an AxiosProgressEvent: loaded, and total and rate when the transport knows them
Sample(loaded, total, rate) == [loaded |-> loaded, total |-> total, rate |-> rate]

\* the rates the transport reports
Rates == {NoNumber, 2048, 3145728}

NoEvent == [total |-> NoNumber, loaded |-> NoNumber, network |-> FracZero, unit |-> "KB",
            increment |-> FracZero, rate |-> NoNumber]

\* emit that keeps only the latest event for the listener
emit_Latest(delivered, event) == <<event>>

\* emit('download-progress', event): the listener is called with the event, at once
emit(delivered, event) == Append(delivered, event)

\* the closure returned by createProgressTransformer(startByte)
createProgressTransformer(startByte) == [startByte |-> startByte, previousPercentage |-> FracZero]

\* one call of the closure: the event it returns and the closure after it
transformProgress(t, progress) ==
    LET rangeTotal == OrZero(progress.total)
        rangeLoaded == OrZero(progress.loaded)
        total == t.startByte + rangeTotal
        loaded == t.startByte + rangeLoaded
        percentage == IF total > 0 THEN Frac(loaded * 100, total) ELSE FracZero
        increment == FracMonus(percentage, t.previousPercentage)
        rate == OrZero(progress.rate)
        unit == IF rate >= bytesPerMB THEN "MB" ELSE "KB"
        network == IF unit = "MB" THEN Frac(rate, bytesPerMB) ELSE Frac(rate, bytesPerKB)
    IN  [ event |-> [total |-> total, loaded |-> loaded, network |-> network, unit |-> unit,
                     increment |-> increment, rate |-> progress.rate],
          transformer |-> [t EXCEPT !.previousPercentage = percentage] ]

\* the events the closure returns for a sequence of samples, one call per sample
RECURSIVE transformAll(_, _)
transformAll(t, samples) ==
    IF samples = <<>> THEN <<>>
    ELSE LET r == transformProgress(t, Head(samples))
         IN  <<r.event>> \o transformAll(r.transformer, Tail(samples))

-----------------------------------------------------------------------------
(* startDownload as a run: the request, the response, the two streams and   *)
(* the promise the call awaits                                              *)

NoDl ==
    [ phase       |-> "idle",       \* idle, requesting, streaming, ended, resolved, rejected
      startByte   |-> 0,
      range       |-> Undefined,    \* the Range header of the request
      requests    |-> 0,            \* requests issued by this call
      status      |-> 0,
      body        |-> <<>>,         \* bytes of the response body still to arrive
      received    |-> 0,            \* bytes of the response body that arrived
      length      |-> NoNumber,     \* Content-Length of the response, if it has one
      transformer |-> createProgressTransformer(0),
      event       |-> NoEvent,      \* the last download-progress event emitted
      samples     |-> <<>>,         \* the samples the transport reported, in order of arrival
      delivered   |-> <<>>,         \* the events a download-progress listener received, in order
      response    |-> "none",       \* response.data: none, open, ended, destroyed
      writer      |-> "none",       \* writeStream: none, open, ending, finished, destroyed
      settled     |-> FALSE,
      error       |-> "none",       \* what the call rejected with
      aborted     |-> FALSE,        \* the abort signal was triggered during this call
      stale       |-> NoCache,      \* the cache file as this call found it
      prior       |-> [interrupted |-> FALSE, bytes |-> <<>>] ]
                                    \* whether the call before this one was interrupted after
                                    \* its response began, and the file it left

Running(d) == d.phase \in {"requesting", "streaming", "ended"}

\* lines 104-116: everything up to the moment the request is on the wire
startRequest(c, d) ==
    LET startByte == startByteOf(c)
    IN  [NoDl EXCEPT !.phase = "requesting",
                     !.startByte = startByte,
                     !.range = rangeHeader(startByte),
                     !.requests = 1,
                     !.transformer = createProgressTransformer(startByte),
                     !.stale = c,
                     !.prior = [interrupted |-> d.phase = "rejected" /\ d.response = "destroyed",
                                bytes |-> c.bytes]]

\* axios.get rejects: a status validateStatus refuses, a transport error, a cancellation
rejectRequest(d, err) == [d EXCEPT !.phase = "rejected", !.settled = TRUE, !.error = err]

\* lines 117-127: the response arrived with an accepted status
openStreams(c, d, status, hasLength) ==
    LET partial == isPartialContent(status)
        start == writeStart(d.startByte, partial)
        flags == writeFlags(start)
        body == responseBody(status, d.startByte)
    IN  [ cache |-> createWriteStream(discardStale(c, d.startByte, partial), flags),
          dl    |-> [d EXCEPT !.phase = "streaming", !.status = status, !.body = body,
                              !.length = IF hasLength THEN Len(body) ELSE NoNumber,
                              !.response = "open", !.writer = "open"] ]

\* onError that leaves the write stream open
onError_LeakWriter(d, err) ==
    IF d.settled THEN d
    ELSE [d EXCEPT !.settled = TRUE, !.response = "destroyed", !.phase = "rejected", !.error = err]

\* const onError = (err) => { ... response.data.destroy(); writeStream.destroy(); reject(err) }
onError(d, err) ==
    IF d.settled THEN d
    ELSE [d EXCEPT !.settled = TRUE, !.response = "destroyed", !.writer = "destroyed",
                   !.phase = "rejected", !.error = err]

\* onFinish without the settled flag
onFinish_Unguarded(d) == [d EXCEPT !.settled = TRUE, !.phase = "resolved"]

\* const onFinish = () => { ... resolve() }
onFinish(d) ==
    IF d.settled THEN d
    ELSE [d EXCEPT !.settled = TRUE, !.phase = "resolved"]

\* a call of startDownload begins; one call runs at a time
StartDownload ==
    /\ ~Running(dl)
    /\ dl' = startRequest(cache, dl)
    /\ cache' = mkdirCache(cache)
    /\ UNCHANGED <<fs, pre, ret, device, out, pairVars, raceVars, chk, ex>>

\* the server answers the request
Respond(status, hasLength) ==
    /\ dl.phase = "requesting"
    /\ status \in Responses(dl.startByte)
    /\ IF validateStatus(status)
       THEN LET r == openStreams(cache, dl, status, hasLength)
            IN  cache' = r.cache /\ dl' = r.dl
       ELSE cache' = cache /\ dl' = rejectRequest([dl EXCEPT !.status = status], "status")
    /\ UNCHANGED <<fs, pre, ret, device, out, pairVars, raceVars, chk, ex>>

\* the request fails before a response arrived
RequestError ==
    /\ dl.phase = "requesting"
    /\ dl' = rejectRequest(dl, "transport")
    /\ UNCHANGED <<fs, pre, ret, device, out, pairVars, raceVars, cache, chk, ex>>

\* one chunk of the body arrives: the transport reports a sample, the chunk is piped
\* into the write stream
Data(rate) ==
    /\ dl.phase = "streaming"
    /\ dl.body # <<>>
    /\ LET received == dl.received + 1
           t == transformProgress(dl.transformer, Sample(received, dl.length, rate))
       IN  /\ dl' = [dl EXCEPT !.body = Tail(@), !.received = received,
                               !.transformer = t.transformer, !.event = t.event,
                               !.samples = Append(@, Sample(received, dl.length, rate)),
                               !.delivered = emit(@, t.event)]
           /\ cache' = writeChunk(cache, <<Head(dl.body)>>)
    /\ UNCHANGED <<fs, pre, ret, device, out, pairVars, raceVars, chk, ex>>

\* response.data.on('end', () => writeStream.end())
End ==
    /\ dl.phase = "streaming"
    /\ dl.body = <<>>
    /\ dl' = [dl EXCEPT !.phase = "ended", !.response = "ended", !.writer = "ending"]
    /\ UNCHANGED <<fs, pre, ret, device, out, pairVars, raceVars, cache, chk, ex>>

\* writeStream.on('finish', onFinish)
Finish ==
    /\ dl.phase = "ended"
    /\ dl' = onFinish([dl EXCEPT !.writer = "finished"])
    /\ UNCHANGED <<fs, pre, ret, device, out, pairVars, raceVars, cache, chk, ex>>

\* response.data.on('error', onError): the connection breaks while the body arrives
ReadError ==
    /\ dl.phase = "streaming"
    /\ dl' = onError(dl, "transport")
    /\ UNCHANGED <<fs, pre, ret, device, out, pairVars, raceVars, cache, chk, ex>>

\* writeStream.on('error', onError): the disk refuses a write
WriteError ==
    /\ dl.phase \in {"streaming", "ended"}
    /\ dl' = onError(dl, "write")
    /\ UNCHANGED <<fs, pre, ret, device, out, pairVars, raceVars, cache, chk, ex>>

\* the caller triggers the abort signal: before the response the request is rejected,
\* while the body arrives the transport makes response.data emit 'error'
Abort ==
    /\ dl.phase \in {"requesting", "streaming"}
    /\ dl' = IF dl.phase = "requesting"
             THEN rejectRequest([dl EXCEPT !.aborted = TRUE], "abort")
             ELSE onError([dl EXCEPT !.aborted = TRUE], "abort")
    /\ UNCHANGED <<fs, pre, ret, device, out, pairVars, raceVars, cache, chk, ex>>

\* an 'error' event reaches onError after the call has settled
LateError ==
    /\ dl.settled
    /\ dl.response # "none"
    /\ dl' = onError(dl, "late")
    /\ UNCHANGED <<fs, pre, ret, device, out, pairVars, raceVars, cache, chk, ex>>

\* a 'finish' event reaches onFinish after the call has settled
LateFinish ==
    /\ dl.settled
    /\ dl.response # "none"
    /\ dl' = onFinish(dl)
    /\ UNCHANGED <<fs, pre, ret, device, out, pairVars, raceVars, cache, chk, ex>>

\* the cache directory and file the downloader starts on: none, an empty directory, or
\* a file that some other content left
InitCaches ==
    {NoCache, mkdirCache(NoCache)} \cup {CacheFile([i \in 1..k |-> StaleByte]) : k \in 0..AssetLen}

-----------------------------------------------------------------------------
(* checkChecksum.  A hex text is the sequence of its characters.            *)

RECURSIVE hexDigits(_)
hexDigits(bytes) ==
    IF bytes = <<>> THEN <<>> ELSE <<ToString(Head(bytes))>> \o hexDigits(Tail(bytes))

\* hash.digest('hex') of a file: lowercase, and different files have different digests
digestHex(bytes) == <<"d">> \o hexDigits(bytes)

\* the same hex text in capital letters
toUpperCase(hex) == [i \in DOMAIN hex |-> IF hex[i] = "d" THEN "D" ELSE hex[i]]
toLowerCase(hex) == [i \in DOMAIN hex |-> IF hex[i] = "D" THEN "d" ELSE hex[i]]

\* a comparison that ignores the case of the letters
sameChecksum_IgnoreCase(calculatedChecksum, checksum) ==
    toLowerCase(calculatedChecksum) = toLowerCase(checksum)

\* calculatedChecksum === checksum
sameChecksum(calculatedChecksum, checksum) == calculatedChecksum = checksum

\* what the read stream of the cache file can fail with while it is read
ReadFaults == {"none", "EIO", "AbortError"}

\* checkChecksum: "true" / "false" when it returns, the error when it rejects
checkChecksum(c, checksum, fault) ==
    IF ~c.exists THEN "ENOENT"
    ELSE IF fault # "none" THEN fault
    ELSE IF sameChecksum(digestHex(c.bytes), checksum) THEN "true" ELSE "false"

\* the values image.getChecksum() has in the catalog: the digest of the asset, the same
\* in capital letters, the digest of another file
Checksums == {digestHex(Asset), toUpperCase(digestHex(Asset)), digestHex(<<StaleByte>>)}

NoCall == [checksum |-> <<>>, fault |-> "none", result |-> "none"]
NoChk == [last |-> NoCall, before |-> NoCall]

CheckChecksum(checksum, fault) ==
    /\ chk' = [last |-> [checksum |-> checksum, fault |-> fault,
                         result |-> checkChecksum(cache, checksum, fault)],
               before |-> chk.last]
    /\ UNCHANGED <<fs, pre, ret, device, out, pairVars, raceVars, cache, dl, ex>>

\* the cache files checkChecksum is called on: none, the asset, a part of it, the asset
\* with one byte changed
SumCaches ==
    {NoCache, mkdirCache(NoCache)}
    \cup {CacheFile(SubSeq(Asset, 1, k)) : k \in 0..AssetLen}
    \cup {CacheFile([Asset EXCEPT ![i] = StaleByte]) : i \in 1..AssetLen}

-----------------------------------------------------------------------------
(* extract: the read stream of the cache file, the progress stream, the     *)
(* extraction stream, and the SDK link <imageBasePath>/default/openharmony  *)

NoEx ==
    [ phase    |-> "idle",     \* idle, piping, stalled, crashed, resolved, rejected
      symlink  |-> TRUE,       \* the symlinkOpenHarmonySdk argument
      read     |-> "none",     \* stream: none, open, errored, ended
      progress |-> "none",     \* progressStream: none, open, errored, ended
      extract  |-> "none",     \* extractStream: none, open, errored, closed
      error    |-> "none",     \* what the call rejected with
      linked   |-> FALSE,      \* this call created the link
      parent   |-> FALSE,      \* <imageBasePath>/default exists
      link     |-> "absent",   \* at the link location: absent, link, dangling, file
      sdk      |-> TRUE ]      \* sdkPath exists

\* fs.existsSync follows links: a link whose target is missing does not exist
existsSyncLink(e) == e.link \in {"link", "file"}

\* fs.symlinkSync(sdkPath, symlinkSdkPath): the new disk, or the error it throws
symlinkSync(e, fault) ==
    IF e.link # "absent" THEN [e EXCEPT !.error = "EEXIST"]
    ELSE IF fault THEN [e EXCEPT !.error = "EPERM"]
    ELSE [e EXCEPT !.link = IF e.sdk THEN "link" ELSE "dangling", !.linked = TRUE]

\* lines 171-177 with a try/catch around them that swallows the error
symlinkStep_Swallow(e, fault) ==
    IF ~e.symlink THEN e
    ELSE LET made == [e EXCEPT !.parent = TRUE]
         IN  IF existsSyncLink(made) THEN made
             ELSE [symlinkSync(made, fault) EXCEPT !.error = "none"]

\* lines 171-177: if (symlinkOpenHarmonySdk) { mkdir the parent; symlink if nothing exists }
symlinkStep(e, fault) ==
    IF ~e.symlink THEN e
    ELSE LET made == [e EXCEPT !.parent = TRUE]
         IN  IF existsSyncLink(made) THEN made ELSE symlinkSync(made, fault)

\* the call settles: it rejects with the error a step threw, and resolves otherwise
settleExtract(e) == [e EXCEPT !.phase = IF e.error = "none" THEN "resolved" ELSE "rejected"]

\* lines 163-169: fs.statSync throws when the cache file is missing, after the read
\* stream was created; otherwise the three streams are piped
startExtract(c, e, symlink) ==
    LET call == [NoEx EXCEPT !.symlink = symlink, !.parent = e.parent, !.link = e.link, !.sdk = e.sdk]
    IN  IF ~c.exists
        THEN [call EXCEPT !.phase = "rejected", !.error = "ENOENT", !.read = "errored"]
        ELSE [call EXCEPT !.phase = "piping", !.read = "open", !.progress = "open", !.extract = "open"]

ExtractRunning(e) == e.phase \in {"piping", "stalled", "crashed"}

Extract(symlink) ==
    /\ ~ExtractRunning(ex)
    /\ ex' = startExtract(cache, ex, symlink)
    /\ UNCHANGED <<fs, pre, ret, device, out, pairVars, raceVars, cache, dl, chk>>

\* the read stream of the cache file emits 'error' (a read error, or the abort signal):
\* nothing listens, the error reaches neither extractStream nor the awaited promise; the
\* process ends with an uncaught exception unless it installed a handler, and then the
\* call stays pending
ExtractReadError(handled) ==
    /\ ex.phase = "piping"
    /\ ex' = [ex EXCEPT !.read = "errored", !.phase = IF handled THEN "stalled" ELSE "crashed"]
    /\ UNCHANGED <<fs, pre, ret, device, out, pairVars, raceVars, cache, dl, chk>>

\* the progress stream emits 'error': the same
ExtractProgressError(handled) ==
    /\ ex.phase = "piping"
    /\ ex' = [ex EXCEPT !.progress = "errored", !.phase = IF handled THEN "stalled" ELSE "crashed"]
    /\ UNCHANGED <<fs, pre, ret, device, out, pairVars, raceVars, cache, dl, chk>>

\* extractStream emits 'error': extractStream.promise() rejects
ExtractStreamError ==
    /\ ex.phase = "piping"
    /\ ex' = settleExtract([ex EXCEPT !.extract = "errored", !.error = "EXTRACT"])
    /\ UNCHANGED <<fs, pre, ret, device, out, pairVars, raceVars, cache, dl, chk>>

\* extractStream closes: extractStream.promise() resolves and the link step runs
ExtractClose(fault) ==
    /\ ex.phase = "piping"
    /\ ex' = settleExtract(symlinkStep([ex EXCEPT !.read = "ended", !.progress = "ended",
                                                  !.extract = "closed"], fault))
    /\ UNCHANGED <<fs, pre, ret, device, out, pairVars, raceVars, cache, dl, chk>>

\* what extract finds under <imageBasePath>/default, and whether sdkPath exists
InitLinks ==
    { [NoEx EXCEPT !.sdk = sdk] : sdk \in BOOLEAN }
    \cup { [NoEx EXCEPT !.parent = TRUE, !.link = l, !.sdk = sdk] :
             l \in {"absent", "link", "dangling", "file"}, sdk \in BOOLEAN }

-----------------------------------------------------------------------------
(* The builder runs: one DeviceImpl object, its setters and its builders *)

DevName == "a"

\* the devices createDevice can return: a pc image with every screen, a phone
\* image with a raw screen and with the full preset
NewDevices ==
    { createDevice(Image("pc"), DeviceOptions(DevName, screen), uuid) :
        screen \in Screens, uuid \in UUIDs }
    \cup { createDevice(Image("phone"), DeviceOptions(DevName, screen), uuid) :
             screen \in {RawScreen, FoldPreset}, uuid \in UUIDs }

\* the entries a caller puts in overrides
OverrideEntries ==
    { <<"hw.cpu.ncore", "8">>, <<"custom.key", "v">>, <<"deviceModel", Undefined>>,
      <<"hw.lcd.double.width", "9999">>, <<"hw.phy.height", "7777">> }

RECURSIVE SeqsUpTo(_, _)
SeqsUpTo(S, n) ==
    IF n = 0 THEN {<<>>}
    ELSE LET shorter == SeqsUpTo(S, n - 1)
         IN  shorter \cup {Append(q, e) : q \in shorter, e \in S}

DistinctKeys(m) == \A i, j \in DOMAIN m : m[i][1] = m[j][1] => i = j

OverridesSet == {o \in SeqsUpTo(OverrideEntries, MaxOverrides) : DistinctKeys(o)}

IniOptionsSet ==
    { IniOptions(vc, pub, <<>>) : vc \in {Undefined, "US"}, pub \in {Undefined, "false"} }
    \cup { IniOptions(Undefined, Undefined, o) : o \in OverridesSet }

\* the records and mappings getDevices loads for a device of this name: what a
\* device of the same image wrote to lists.json and config.ini when deployed
StoredLists(d) ==
    { buildList(createDevice(d.image, DeviceOptions(DevName, FoldPreset), uuid)) : uuid \in UUIDs }

StoredInis(d) ==
    { parseIni(toIniString(createDevice(d.image, DeviceOptions(DevName, FoldPreset), "u2"))),
      << <<"name", DevName>>, <<"deviceModel", Null>>, <<"uuid", "u1">> >> }

NoDevice == createDevice(Image("pc"), DeviceOptions(DevName, RawScreen), "u1")

NoOut ==
    [op |-> "none", options |-> DefaultIniOptions, list |-> NoList, ini |-> <<>>, text |-> <<>>, uuid |-> Undefined]

SetUuid(uuid) ==
    /\ device' = setUuid(device, uuid)
    /\ out' = NoOut
    /\ UNCHANGED <<fs, pre, ret>>
    /\ UNCHANGED <<pairVars, raceVars, dlVars>>

SetCachedList(list) ==
    /\ device' = setCachedList(device, list)
    /\ out' = NoOut
    /\ UNCHANGED <<fs, pre, ret>>
    /\ UNCHANGED <<pairVars, raceVars, dlVars>>

SetCachedIni(ini) ==
    /\ device' = setCachedIni(device, ini)
    /\ out' = NoOut
    /\ UNCHANGED <<fs, pre, ret>>
    /\ UNCHANGED <<pairVars, raceVars, dlVars>>

GetUuid ==
    /\ out' = [NoOut EXCEPT !.op = "getUuid", !.uuid = getUuid(device)]
    /\ UNCHANGED <<fs, pre, ret, device>>
    /\ UNCHANGED <<pairVars, raceVars, dlVars>>

BuildList ==
    /\ out' = [NoOut EXCEPT !.op = "buildList", !.list = buildList(device)]
    /\ UNCHANGED <<fs, pre, ret, device>>
    /\ UNCHANGED <<pairVars, raceVars, dlVars>>

BuildIni(options) ==
    /\ out' = [NoOut EXCEPT !.op = "buildIni", !.options = options, !.ini = buildIni(device, options)]
    /\ UNCHANGED <<fs, pre, ret, device>>
    /\ UNCHANGED <<pairVars, raceVars, dlVars>>

\* toIniString; out.ini is what buildIni() returns at the same moment
ToIniString ==
    /\ out' = [NoOut EXCEPT !.op = "toIniString", !.ini = buildIni(device, DefaultIniOptions),
                            !.text = toIniString(device)]
    /\ UNCHANGED <<fs, pre, ret, device>>
    /\ UNCHANGED <<pairVars, raceVars, dlVars>>

\* a caller builds the mapping for its options and asks for the text
BuildIniThenToIniString(options) ==
    /\ out' = [NoOut EXCEPT !.op = "buildIni+toIniString", !.options = options,
                            !.ini = buildIni(device, options), !.text = toIniString(device)]
    /\ UNCHANGED <<fs, pre, ret, device>>
    /\ UNCHANGED <<pairVars, raceVars, dlVars>>

InitDev ==
    /\ device \in NewDevices
    /\ out = NoOut
    /\ fs = NoFs
    /\ pre = NoFs
    /\ ret = NoRet
    /\ twin = NoDevice
    /\ outTwin = NoOut
    /\ procs = NoProcs
    /\ cache = NoCache
    /\ dl = NoDl
    /\ chk = NoChk
    /\ ex = NoEx

NextDev ==
    \/ \E uuid \in UUIDs : SetUuid(uuid)
    \/ \E list \in StoredLists(device) : SetCachedList(list)
    \/ \E ini \in StoredInis(device) : SetCachedIni(ini)
    \/ GetUuid
    \/ BuildList
    \/ \E options \in IniOptionsSet : BuildIni(options)
    \/ ToIniString
    \/ \E options \in IniOptionsSet : BuildIniThenToIniString(options)

SpecDev == InitDev /\ [][NextDev]_vars

-----------------------------------------------------------------------------
(* Claims about the builder, checked under SpecDev *)

\* what the device's own screen and record say, read off the inputs of buildIni
InputIsFoldable == buildList(device).type = "2in1_foldable"
InputPreset == device.options.screen.product
InputDefinesOuter ==
    /\ InputPreset.outerScreenWidth \notin {Undefined, Null}
    /\ InputPreset.outerScreenHeight \notin {Undefined, Null}
    /\ InputPreset.outerScreenDiagonal \notin {Undefined, Null}
InputDual == InputIsFoldable /\ device.options.screen.kind = "preset" /\ InputDefinesOuter

\* a buildIni call that derived its mapping (no mapping loaded from disk), without overrides
DerivedPlain == out.op = "buildIni" /\ ~device.cachedIni.set /\ out.options.overrides = <<>>

DoubleKeys == {"hw.lcd.double.diagonalSize", "hw.lcd.double.height", "hw.lcd.double.width"}

\* C7: without overrides, the mapping buildIni derives has hw.lcd.number = "2" exactly
\* when the record's type is 2in1_foldable, the screen is a ProductPreset and the preset
\* defines outerScreenWidth, outerScreenHeight and outerScreenDiagonal; in every other
\* case hw.lcd.number = "1" and no hw.lcd.double.* key is in the mapping.
C7_DualScreenRule ==
    DerivedPlain =>
        /\ Get(out.ini, "hw.lcd.number") = "2" <=> InputDual
        /\ ~InputDual => /\ Get(out.ini, "hw.lcd.number") = "1"
                         /\ Keys(out.ini) \cap DoubleKeys = {}

\* a foldable product preset that lacks exactly the outer diagonal was built in single mode
C7_Witness ==
    /\ DerivedPlain
    /\ InputIsFoldable
    /\ device.options.screen.kind = "preset"
    /\ InputPreset.outerScreenWidth = "2472"
    /\ InputPreset.outerScreenHeight = "1648"
    /\ InputPreset.outerScreenDiagonal = Undefined
    /\ Get(out.ini, "hw.lcd.number") = "1"

\* C8: without overrides, in dual-screen mode the hw.lcd.single.* fields are the preset's
\* outer screen fields and the hw.lcd.double.* fields are the preset's primary screen
\* fields; in single-screen mode the hw.lcd.single.* fields are the primary screen's own
\* diagonal, height and width (the numbers of getScreen(), printed).
C8_ScreenFields ==
    DerivedPlain =>
        IF InputDual
        THEN /\ Get(out.ini, "hw.lcd.single.diagonalSize") = InputPreset.outerScreenDiagonal
             /\ Get(out.ini, "hw.lcd.single.height") = InputPreset.outerScreenHeight
             /\ Get(out.ini, "hw.lcd.single.width") = InputPreset.outerScreenWidth
             /\ Get(out.ini, "hw.lcd.double.diagonalSize") = InputPreset.screenDiagonal
             /\ Get(out.ini, "hw.lcd.double.height") = InputPreset.screenHeight
             /\ Get(out.ini, "hw.lcd.double.width") = InputPreset.screenWidth
        ELSE /\ Get(out.ini, "hw.lcd.single.diagonalSize") = toString(getScreen(device).options.diagonal)
             /\ Get(out.ini, "hw.lcd.single.height") = toString(getScreen(device).options.height)
             /\ Get(out.ini, "hw.lcd.single.width") = toString(getScreen(device).options.width)

\* a dual-screen mapping was built: single = outer (13), double = primary (18.00)
C8_Witness ==
    /\ DerivedPlain
    /\ InputDual
    /\ Get(out.ini, "hw.lcd.single.diagonalSize") = "13"
    /\ Get(out.ini, "hw.lcd.double.diagonalSize") = "18.00"
    /\ Get(out.ini, "hw.lcd.number") = "2"

\* C9: every key of the caller's overrides has the caller's value in the mapping that
\* buildIni returns, also the keys the builder derives after the base fields and also on a
\* device whose mapping was loaded from disk.
C9_OverridesAppliedLast ==
    out.op = "buildIni" =>
        \A i \in DOMAIN out.options.overrides :
            Get(out.ini, out.options.overrides[i][1]) = out.options.overrides[i][2]

\* the entries of a mapping that have a value, in the mapping's order
Valued(m) == {i \in DOMAIN m : m[i][2] \notin {Undefined, Null}}
NthValued(m, j) == CHOOSE i \in Valued(m) : Cardinality({h \in Valued(m) : h <= i}) = j

\* C10: the text of toIniString has one line key=value per entry of the mapping whose
\* value is neither undefined nor null, in the mapping's order, each line ended by one
\* newline, and nothing else; an entry without a value gives no line.
C10_ToIniStringLines ==
    out.op = "toIniString" =>
        LET m == out.ini
            k == Cardinality(Valued(m))
        IN  /\ Len(out.text) = IF k = 0 THEN 1 ELSE 4 * k
            /\ out.text[Len(out.text)] = "\n"
            /\ \A j \in 1..k :
                 /\ out.text[4 * j - 3] = m[NthValued(m, j)][1]
                 /\ out.text[4 * j - 2] = "="
                 /\ out.text[4 * j - 1] = m[NthValued(m, j)][2]
                 /\ out.text[4 * j] = "\n"

\* a mapping with a null entry and an entry after it was serialised
C10_Witness ==
    /\ out.op = "toIniString"
    /\ \E i \in DOMAIN out.ini : out.ini[i][2] = Null /\ i < Len(out.ini)
    /\ Len(out.text) = 8

\* the literal scenario: the pc image (2in1_foldable), cpuNumber 4, memorySize 4096,
\* diskSize 6144, the preset with diagonal "18.00", height "2472", width "3296", density
\* "288" and outer diagonal "13", outer height "1648", outer width "2472"; buildIni was
\* called on it without overrides and derived the mapping
Scenario ==
    /\ DerivedPlain
    /\ device.image = Image("pc")
    /\ buildList(device).type = "2in1_foldable"
    /\ device.options.cpuNumber = 400
    /\ device.options.memorySize = 409600
    /\ device.options.diskSize = 614400
    /\ device.options.screen = FoldPreset
    /\ InputPreset.screenDiagonal = "18.00"
    /\ InputPreset.screenHeight = "2472"
    /\ InputPreset.screenWidth = "3296"
    /\ InputPreset.screenDensity = "288"

\* C12 as stated: in the literal scenario the mapping contains hw.lcd.number=2,
\* hw.lcd.single.diagonalSize=13, hw.lcd.double.diagonalSize=18 and hw.cpu.ncore=4.
C12_LiteralScenario ==
    Scenario =>
        /\ Get(out.ini, "hw.lcd.number") = "2"
        /\ Get(out.ini, "hw.lcd.single.diagonalSize") = "13"
        /\ Get(out.ini, "hw.lcd.double.diagonalSize") = "18"
        /\ Get(out.ini, "hw.cpu.ncore") = "4"

\* C12: in the literal scenario the mapping contains hw.lcd.number=2,
\* hw.lcd.single.diagonalSize=13 and hw.cpu.ncore=4, and hw.lcd.double.diagonalSize is
\* the preset's diagonal as the preset spells it, 18.00.
C12_LiteralScenarioVerbatim ==
    Scenario =>
        /\ Get(out.ini, "hw.lcd.number") = "2"
        /\ Get(out.ini, "hw.lcd.single.diagonalSize") = "13"
        /\ Get(out.ini, "hw.lcd.double.diagonalSize") = InputPreset.screenDiagonal
        /\ Get(out.ini, "hw.lcd.double.diagonalSize") = "18.00"
        /\ Get(out.ini, "hw.cpu.ncore") = "4"

\* the mapping of the literal scenario was built, with its four keys present
C12_Witness ==
    /\ Scenario
    /\ {"hw.lcd.number", "hw.lcd.single.diagonalSize", "hw.lcd.double.diagonalSize", "hw.cpu.ncore"}
           \subseteq Keys(out.ini)
    /\ buildList(device).diagonalSize = "18.00"

\* C28: the uuid of the record buildList returns, the uuid entry of the mapping buildIni
\* returns and the value getUuid returns are the UUID most recently assigned to the
\* device, after any sequence of setUuid, setCachedList and setCachedIni calls.
C28_UuidConsistent ==
    /\ out.op = "getUuid" => out.uuid = device.uuid
    /\ out.op = "buildList" => out.list.uuid = device.uuid
    /\ out.op = "buildIni" => Get(out.ini, "uuid") = device.uuid

\* C29: for every IniOptions o, the text of toIniString, which deploy writes to
\* config.ini, is the key=value serialization of the mapping buildIni(o) returns.
C29_TextAgreesWithOptions ==
    out.op = "buildIni+toIniString" =>
        out.text = iniJoin(iniFilter(out.ini)) \o <<"\n">>

-----------------------------------------------------------------------------

InitReg ==
    /\ fs \in InitDisks
    /\ pre = NoFs
    /\ ret = NoRet
    /\ device = NoDevice
    /\ out = NoOut
    /\ twin = NoDevice
    /\ outTwin = NoOut
    /\ procs = NoProcs
    /\ cache = NoCache
    /\ dl = NoDl
    /\ chk = NoChk
    /\ ex = NoEx

NextReg ==
    \/ \E d \in RegDevices : Deploy(d)
    \/ \E d \in RegDevices : Delete(d)
    \/ \E d \in RegDevices : IsDeployed(d)
    \/ \E image \in Images : GetDevices(image, "u2")
    \/ \E d \in RegDevices : AddThenRemove(d)

SpecReg == InitReg /\ [][NextReg]_vars

-----------------------------------------------------------------------------
(* Claims about the registry, checked under SpecReg *)

\* the device the last operation was called on, and its record
Called == ret.devices[1]
CalledRecord == buildList(Called)

\* the positions of the records named name in a lists.json value
Entries(lists, name) == {i \in DOMAIN lists.items : lists.items[i].name = name}

InRegistry(lists, name) == lists.kind = "array" /\ Entries(lists, name) # {}

\* a record named name is in lists.json and has its config.ini on the disk
FullyDeployed(disk, name) ==
    /\ disk.lists.kind = "array"
    /\ \E i \in Entries(disk.lists, name) :
           \E f \in disk.files : f[1] = Resolve(disk.lists.items[i].path, "config.ini")

\* deploy was called while the name was in lists.json or the target directory existed
DuplicateDeploy ==
    /\ ret.op = "deploy"
    /\ InRegistry(pre.lists, ret.name) \/ CalledRecord.path \in pre.dirs

C2_DeployPostcondition ==
    ret.op = "deploy" /\ ret.outcome = "ok" =>
        /\ fs.lists = ArrayLists(IF pre.lists.kind = "absent" THEN <<CalledRecord>>
                                 ELSE Append(pre.lists.items, CalledRecord))
        /\ CalledRecord.path \in fs.dirs
        /\ <<Resolve(CalledRecord.path, "config.ini"), toIniString(Called)>> \in fs.files

\* the records of a sequence that are not named name, in their order
Without(items, name) == SelectSeq(items, LAMBDA item : item.name # name)

\* C3: delete fails if lists.json is absent or holds no record of that name; in every
\* other case lists.json afterwards holds the previous records minus that entry, in
\* their order, and the removed record's directory and its contents are not on disk.
C3_DeletePostcondition ==
    ret.op = "delete" =>
        IF InRegistry(pre.lists, ret.name)
        THEN /\ fs.lists = ArrayLists(Without(pre.lists.items, ret.name))
             /\ \A i \in Entries(pre.lists, ret.name) :
                    /\ pre.lists.items[i].path \notin fs.dirs
                    /\ \A f \in fs.files : f[1] # Resolve(pre.lists.items[i].path, "config.ini")
        ELSE /\ ret.outcome # "ok"
             /\ fs = pre

\* a deployed device was deleted from a registry of two: the other record stays
C3_Witness ==
    /\ ret.op = "delete"
    /\ ret.outcome = "ok"
    /\ Len(pre.lists.items) = 2
    /\ Len(fs.lists.items) = 1
    /\ CalledRecord.path \in pre.dirs
    /\ <<Resolve(CalledRecord.path, "config.ini"), toIniString(Called)>> \in pre.files

\* C4: isDeployed is true only if lists.json has a record of that name and the
\* config.ini under that record's directory exists; it is false when lists.json is
\* absent, and when the record is there but its config.ini is not.
C4_IsDeployedMeaning ==
    ret.op = "isDeployed" =>
        /\ ret.outcome = "true" => FullyDeployed(pre, ret.name)
        /\ pre.lists.kind = "absent" => ret.outcome = "false"
        /\ InRegistry(pre.lists, ret.name) /\ ~FullyDeployed(pre, ret.name) => ret.outcome = "false"

\* the record is in lists.json, its config.ini is not on disk, and isDeployed said false
C4_Witness ==
    /\ ret.op = "isDeployed"
    /\ InRegistry(pre.lists, ret.name)
    /\ ~FullyDeployed(pre, ret.name)
    /\ ret.outcome = "false"

\* C5: every registry operation called while lists.json holds a value that is no array
\* reports LIST_JSON_NOT_AN_ARRAY and leaves lists.json as it is.
C5_NonArrayIsStructuralFailure ==
    ret.op # "none" /\ pre.lists.kind \in NonArrayKinds =>
        /\ ret.outcome = "LIST_JSON_NOT_AN_ARRAY"
        /\ fs.lists = pre.lists

\* C6: the record names in lists.json are pairwise distinct.
C6_NamesDistinct ==
    fs.lists.kind = "array" =>
        \A i, j \in DOMAIN fs.lists.items :
            fs.lists.items[i].name = fs.lists.items[j].name => i = j

\* lists.json holds two records and a deploy of one of their names was refused
C6_Witness ==
    /\ ret.op = "deploy"
    /\ ret.outcome = "DEVICE_ALREADY_DEPLOYED"
    /\ fs.lists.kind = "array"
    /\ Len(fs.lists.items) = 2
    /\ InRegistry(fs.lists, ret.name)

\* the records of a lists.json value, none when the file is absent
RecordsOf(lists) == IF lists.kind = "array" THEN lists.items ELSE <<>>

\* C26: when a device whose name and target directory are not in use is deployed with
\* success and deleted at once, the delete succeeds, the records of lists.json are
\* the ones before the deploy (none when the file was absent) and the device's
\* directory does not exist.
C26_AddRemoveRoundTrip ==
    ret.op = "deploy+delete" =>
        /\ ret.outcome = "ok"
        /\ fs.lists.kind = "array"
        /\ fs.lists.items = RecordsOf(pre.lists)
        /\ CalledRecord.path \notin fs.dirs

\* C27: when delete throws, lists.json is what it was before the call, also when it
\* throws because the device's directory does not exist.
C27_DeleteFailureAtomic ==
    (ret.op = "delete" /\ ret.outcome # "ok") => fs.lists = pre.lists

-----------------------------------------------------------------------------
(* Two DeviceImpl objects created separately from one image and one options  *)
(* object: image.createDevice(options) called twice                          *)

\* buildIni(options) is evaluated on both objects
PairBuildIni(options) ==
    /\ out' = [NoOut EXCEPT !.op = "buildIni", !.options = options, !.ini = buildIni(device, options)]
    /\ outTwin' = [NoOut EXCEPT !.op = "buildIni", !.options = options, !.ini = buildIni(twin, options)]
    /\ UNCHANGED <<fs, pre, ret, device, twin, dlVars, raceVars>>

\* buildIni(options) is evaluated twice on the first object; outTwin is the second result
RepeatBuildIni(options) ==
    /\ out' = [NoOut EXCEPT !.op = "buildIni", !.options = options, !.ini = buildIni(device, options)]
    /\ outTwin' = [NoOut EXCEPT !.op = "repeat", !.options = options, !.ini = buildIni(device, options)]
    /\ UNCHANGED <<fs, pre, ret, device, twin, dlVars, raceVars>>

\* setUuid on the first object
FirstSetUuid(uuid) ==
    /\ device' = setUuid(device, uuid)
    /\ out' = NoOut
    /\ outTwin' = NoOut
    /\ UNCHANGED <<fs, pre, ret, twin, dlVars, raceVars>>

\* setUuid on the second object
TwinSetUuid(uuid) ==
    /\ twin' = setUuid(twin, uuid)
    /\ out' = NoOut
    /\ outTwin' = NoOut
    /\ UNCHANGED <<fs, pre, ret, device, dlVars, raceVars>>

InitPair ==
    /\ device \in NewDevices
    /\ twin \in {createDevice(device.image, device.options, uuid) : uuid \in UUIDs}
    /\ out = NoOut
    /\ outTwin = NoOut
    /\ procs = NoProcs
    /\ fs = NoFs
    /\ pre = NoFs
    /\ ret = NoRet
    /\ cache = NoCache
    /\ dl = NoDl
    /\ chk = NoChk
    /\ ex = NoEx

NextPair ==
    \/ \E options \in IniOptionsSet : PairBuildIni(options)
    \/ \E options \in IniOptionsSet : RepeatBuildIni(options)
    \/ \E uuid \in UUIDs : FirstSetUuid(uuid)
    \/ \E uuid \in UUIDs : TwinSetUuid(uuid)

SpecPair == InitPair /\ [][NextPair]_vars

\* buildIni was evaluated twice with identical (image, options): on the two objects,
\* which InitPair creates from one image and one options object, or twice on the first
TwoEvaluations == out.op = "buildIni" /\ outTwin.op \in {"buildIni", "repeat"}

\* C11 as stated: two evaluations of buildIni with identical (image, options), also on
\* two objects created separately, return identical mappings (keys, values, key order).
C11_IdenticalMappings ==
    TwoEvaluations => out.ini = outTwin.ini

\* C11: two evaluations of buildIni on one object return identical mappings; evaluations
\* on two objects created separately from the same image and options return mappings
\* with the same keys in the same order and the same values except under the key uuid,
\* which holds each object's own UUID; they are identical when the two UUIDs are equal.
C11_IdenticalUpToUuid ==
    TwoEvaluations =>
        /\ outTwin.op = "repeat" => out.ini = outTwin.ini
        /\ Len(out.ini) = Len(outTwin.ini)
        /\ \A i \in DOMAIN out.ini :
              /\ out.ini[i][1] = outTwin.ini[i][1]
              /\ out.ini[i][1] # "uuid" => out.ini[i][2] = outTwin.ini[i][2]
        /\ Get(out.ini, "uuid") = getUuid(device)
        /\ outTwin.op = "buildIni" => Get(outTwin.ini, "uuid") = getUuid(twin)
        /\ getUuid(device) = getUuid(twin) => out.ini = outTwin.ini

\* two objects created from the same image and options drew different UUIDs, and their
\* mappings differ
C11_Witness ==
    /\ TwoEvaluations
    /\ outTwin.op = "buildIni"
    /\ getUuid(device) # getUuid(twin)
    /\ out.ini # outTwin.ini

-----------------------------------------------------------------------------
(* The download runs: calls of startDownload on one URL, one after another  *)

InitDl ==
    /\ cache \in InitCaches
    /\ dl = NoDl
    /\ chk = NoChk
    /\ ex = NoEx
    /\ fs = NoFs
    /\ pre = NoFs
    /\ ret = NoRet
    /\ device = NoDevice
    /\ out = NoOut
    /\ twin = NoDevice
    /\ outTwin = NoOut
    /\ procs = NoProcs

NextDl ==
    \/ StartDownload
    \/ \E status \in Statuses, hasLength \in BOOLEAN : Respond(status, hasLength)
    \/ RequestError
    \/ \E rate \in Rates : Data(rate)
    \/ End
    \/ Finish
    \/ ReadError
    \/ WriteError
    \/ Abort
    \/ LateError
    \/ LateFinish

SpecDl == InitDl /\ [][NextDl]_vars

-----------------------------------------------------------------------------
(* Claims about startDownload, checked under SpecDl *)

IsPrefix(p, s) == Len(p) <= Len(s) /\ p = SubSeq(s, 1, Len(p))

\* the whole body of the response this call received
FullBody == responseBody(dl.status, dl.startByte)

\* the call found a file that an interrupted download of the asset left: N bytes of it
ResumesInterrupted ==
    /\ dl.prior.interrupted
    /\ dl.stale.exists
    /\ IsPrefix(dl.stale.bytes, Asset)

\* C13: a download that starts without a cache file and runs to completion leaves the
\* asset in the cache file; a call that finds the N bytes an interrupted download left
\* and runs to completion leaves the same bytes, with the same digest, for every N.
C13_ResumeCorrectness ==
    dl.phase = "resolved" =>
        /\ ~dl.stale.exists => cache.bytes = Asset
        /\ ResumesInterrupted =>
              /\ cache.bytes = Asset
              /\ digestHex(cache.bytes) = digestHex(Asset)

\* a download interrupted inside the asset was resumed with 206 and completed
C13_Witness ==
    /\ dl.phase = "resolved"
    /\ ResumesInterrupted
    /\ dl.startByte > 0
    /\ dl.startByte < AssetLen
    /\ dl.status = 206
    /\ cache.bytes = Asset

\* C14: when the request carried a Range (resume offset > 0) and the server answered
\* 200, the cache file holds exactly the bytes of the response body that arrived so far,
\* and after completion the whole body and nothing of the file found at the start.
C14_FullContentDiscardsStale ==
    (dl.startByte > 0 /\ dl.status = 200 /\ dl.response # "none") =>
        /\ cache.exists
        /\ cache.bytes = SubSeq(FullBody, 1, dl.received)
        /\ dl.phase = "resolved" => cache.bytes = FullBody /\ StaleByte \notin Range(cache.bytes)

\* a stale file was found, the server answered the range request with 200, the call
\* completed
C14_Witness ==
    /\ dl.phase = "resolved"
    /\ dl.startByte > 0
    /\ dl.range # Undefined
    /\ dl.status = 200
    /\ StaleByte \in Range(dl.stale.bytes)
    /\ cache.bytes = Asset

\* C15: a call issues one request; a response whose status is neither 200 nor 206
\* rejects the call without opening a stream or touching the cache file, a transport
\* error rejects the call, and only a 200 or 206 response is ever streamed.
C15_OnlyOkAndPartial ==
    /\ dl.requests <= 1
    /\ (dl.status # 0 /\ dl.status \notin {200, 206}) =>
          /\ dl.phase = "rejected"
          /\ dl.error = "status"
          /\ dl.requests = 1
          /\ dl.response = "none" /\ dl.writer = "none"
          /\ cache = mkdirCache(dl.stale)
    /\ dl.error = "transport" => dl.phase = "rejected" /\ dl.requests = 1
    /\ dl.phase \in {"streaming", "ended", "resolved"} => dl.status \in {200, 206}

\* a range request was answered with 416 and the call failed after its one request
C15_Witness ==
    /\ dl.phase = "rejected"
    /\ dl.status = 416
    /\ dl.range # Undefined
    /\ dl.requests = 1

C17_ProgressWholeAsset ==
    (Running(dl) /\ dl.event # NoEvent /\ dl.length # NoNumber) =>
        /\ dl.event.total = AssetLen
        /\ dl.event.loaded = (IF dl.status = 206 THEN dl.startByte ELSE 0) + dl.received

\* the bytes the cache file holds in front of the body when the body is appended
KeptBytes == IF dl.startByte > 0 /\ dl.status = 206 THEN dl.stale.bytes ELSE <<>>

\* C22: the resume offset of a call is the size of the cache file found at its start, 0
\* without one; the request carries "Range: bytes=<offset>-" exactly when the offset is
\* above 0; the body is appended to the file found exactly when the offset is above 0 and
\* the status is 206, and is written from byte 0 of an emptied file otherwise.
C22_OffsetRangeAppend ==
    dl.phase # "idle" =>
        /\ dl.startByte = (IF dl.stale.exists THEN Len(dl.stale.bytes) ELSE 0)
        /\ (dl.range # Undefined) <=> (dl.startByte > 0)
        /\ dl.startByte > 0 => dl.range = "bytes=" \o ToString(dl.startByte) \o "-"
        /\ dl.response # "none" =>
              /\ cache.exists
              /\ cache.bytes = KeptBytes \o SubSeq(FullBody, 1, dl.received)
              /\ (KeptBytes # <<>>) <=> (dl.startByte > 0 /\ dl.status = 206)

\* a partial response to a range request was appended behind the bytes found
C22_Witness ==
    /\ dl.startByte > 0
    /\ dl.range = "bytes=" \o ToString(dl.startByte) \o "-"
    /\ dl.status = 206
    /\ dl.received >= 1
    /\ Len(cache.bytes) = dl.startByte + dl.received

\* the promise of startDownload is resolved only with the response ended and the write
\* finished, and is rejected with both streams destroyed once a stream failed
SettledRight ==
    /\ dl.phase \in {"resolved", "rejected"} <=> dl.settled
    /\ dl.phase = "resolved" =>
          /\ dl.response = "ended"
          /\ dl.writer = "finished"
          /\ dl.error = "none"
    /\ (dl.phase = "rejected" /\ dl.response # "none") =>
          /\ dl.response = "destroyed"
          /\ dl.writer = "destroyed"
          /\ dl.error \in {"transport", "write", "abort"}

\* a settled call keeps its outcome, its error and its streams until the next call
SettledOnce ==
    (dl.settled /\ dl'.phase # "requesting") =>
        /\ dl'.phase = dl.phase
        /\ dl'.error = dl.error
        /\ dl'.response = dl.response
        /\ dl'.writer = dl.writer

\* C23: the promise of startDownload settles at most once: it resolves only when the
\* response has ended and the write has finished, the read or write error that comes
\* first rejects it and destroys both streams, and finish or error events that come
\* after it settled do not change the outcome.
C23_SettlesOnce == [](SettledRight) /\ [][SettledOnce]_vars

\* the write failed after the response had ended: the call is rejected, both streams
\* are destroyed
C23_Witness ==
    /\ dl.phase = "rejected"
    /\ dl.settled
    /\ dl.error = "write"
    /\ dl.body = <<>>
    /\ dl.received = Len(FullBody)
    /\ dl.response = "destroyed"
    /\ dl.writer = "destroyed"

\* C24: within one download the listener has received exactly one download-progress
\* event per sample the transport reported, and the k-th event it received is what the
\* progress transformer of the call returns for the k-th sample.
C24_OneEventPerSample ==
    /\ Len(dl.delivered) = Len(dl.samples)
    /\ dl.phase # "idle" =>
          dl.delivered = transformAll(createProgressTransformer(dl.startByte), dl.samples)
    /\ dl.samples # <<>> => dl.event = dl.delivered[Len(dl.delivered)]

\* a resumed download reported three samples at different rates
C24_Witness ==
    /\ Len(dl.samples) >= 3
    /\ Len(dl.delivered) = Len(dl.samples)
    /\ dl.startByte > 0
    /\ dl.samples[1].rate # dl.samples[2].rate
    /\ dl.delivered[1] # dl.delivered[2]
    /\ dl.delivered[2].loaded < dl.delivered[3].loaded

-----------------------------------------------------------------------------
(* The sample runs: one progress transformer fed with the samples of one     *)
(* download, whose loaded value may fall                                     *)

\* the number of samples fed to one transformer
MaxSamples == 3

\* const transformProgress = this.createProgressTransformer(startByte), for a download
\* whose response announces total bytes
NewTransformer(startByte, total) ==
    /\ dl.phase = "idle"
    /\ dl' = [NoDl EXCEPT !.phase = "sampling", !.startByte = startByte, !.length = total,
                          !.transformer = createProgressTransformer(startByte)]
    /\ UNCHANGED <<fs, pre, ret, device, out, pairVars, raceVars, cache, chk, ex>>

\* onDownloadProgress: progress => this.emit('download-progress', transformProgress(progress))
\* for a sample with any loaded value up to the total
FeedSample(loaded) ==
    /\ dl.phase = "sampling"
    /\ Len(dl.samples) < MaxSamples
    /\ loaded <= dl.length
    /\ LET progress == Sample(loaded, dl.length, NoNumber)
           t == transformProgress(dl.transformer, progress)
       IN  dl' = [dl EXCEPT !.transformer = t.transformer, !.event = t.event,
                            !.samples = Append(@, progress),
                            !.delivered = emit(@, t.event)]
    /\ UNCHANGED <<fs, pre, ret, device, out, pairVars, raceVars, cache, chk, ex>>

InitSamples ==
    /\ cache = NoCache
    /\ dl = NoDl
    /\ chk = NoChk
    /\ ex = NoEx
    /\ fs = NoFs
    /\ pre = NoFs
    /\ ret = NoRet
    /\ device = NoDevice
    /\ out = NoOut
    /\ twin = NoDevice
    /\ outTwin = NoOut
    /\ procs = NoProcs

NextSamples ==
    \/ \E startByte \in 0..AssetLen, total \in 1..AssetLen : NewTransformer(startByte, total)
    \/ \E loaded \in 0..AssetLen : FeedSample(loaded)

SpecSamples == InitSamples /\ [][NextSamples]_vars

FracAdd(a, b) == Frac(a.n * b.d + b.n * a.d, a.d * b.d)

\* the sum of the increments of a sequence of events
RECURSIVE incrementSum(_)
incrementSum(events) ==
    IF events = <<>> THEN FracZero
    ELSE FracAdd(Head(events).increment, incrementSum(Tail(events)))

\* C30: for every sequence of samples of one download with loaded <= total, every
\* increment emitted is at least 0 and the increments emitted so far sum to at most 100,
\* also when a sample reports a smaller loaded value than the one before it.
C30_IncrementsWithinHundred ==
    /\ \A k \in 1..Len(dl.delivered) : FracLeq(FracZero, dl.delivered[k].increment)
    /\ FracLeq(incrementSum(dl.delivered), Frac(100, 1))

\* as long as no sample regresses the increments sum to at most 100
C30_MonotoneWithinHundred ==
    (\A k \in 1..(Len(dl.samples) - 1) : dl.samples[k].loaded <= dl.samples[k + 1].loaded)
        => FracLeq(incrementSum(dl.delivered), Frac(100, 1))

-----------------------------------------------------------------------------
(* The checksum runs: calls of checkChecksum on a cache file that stays as it is *)

InitSum ==
    /\ cache \in SumCaches
    /\ chk = NoChk
    /\ dl = NoDl
    /\ ex = NoEx
    /\ fs = NoFs
    /\ pre = NoFs
    /\ ret = NoRet
    /\ device = NoDevice
    /\ out = NoOut
    /\ twin = NoDevice
    /\ outTwin = NoOut
    /\ procs = NoProcs

NextSum == \E checksum \in Checksums, fault \in ReadFaults : CheckChecksum(checksum, fault)

SpecSum == InitSum /\ [][NextSum]_vars

IsBoolean(result) == result \in {"true", "false"}

\* C18: checkChecksum returns a boolean exactly when the cache file exists and is read
\* without error, and then true exactly when the file's digest equals the expected value
\* character by character (an expected value in capital letters gives false); it fails
\* with the I/O error otherwise; two calls with the same expected value on the unchanged
\* file that both return, return the same boolean.
C18_ChecksumBoolean ==
    chk.last.result # "none" =>
        LET c == chk.last
            b == chk.before
        IN  /\ IsBoolean(c.result) <=> (cache.exists /\ c.fault = "none")
            /\ c.result = "true" <=>
                  (cache.exists /\ c.fault = "none" /\ digestHex(cache.bytes) = c.checksum)
            /\ ~IsBoolean(c.result) =>
                  c.result = IF ~cache.exists THEN "ENOENT" ELSE c.fault
            /\ (IsBoolean(c.result) /\ c.checksum = toUpperCase(digestHex(cache.bytes)))
                  => c.result = "false"
            /\ (IsBoolean(c.result) /\ IsBoolean(b.result) /\ b.checksum = c.checksum)
                  => b.result = c.result

\* the complete asset was checked twice against its digest in capital letters: false twice
C18_Witness ==
    /\ cache.bytes = Asset
    /\ chk.last.checksum = toUpperCase(digestHex(Asset))
    /\ chk.last.result = "false"
    /\ chk.before.checksum = chk.last.checksum
    /\ chk.before.result = "false"

-----------------------------------------------------------------------------
(* The extraction runs: calls of extract, one after another *)

InitEx ==
    /\ cache \in {NoCache, CacheFile(Asset)}
    /\ ex \in InitLinks
    /\ dl = NoDl
    /\ chk = NoChk
    /\ fs = NoFs
    /\ pre = NoFs
    /\ ret = NoRet
    /\ device = NoDevice
    /\ out = NoOut
    /\ twin = NoDevice
    /\ outTwin = NoOut
    /\ procs = NoProcs

NextEx ==
    \/ \E symlink \in BOOLEAN : Extract(symlink)
    \/ \E handled \in BOOLEAN : ExtractReadError(handled)
    \/ \E handled \in BOOLEAN : ExtractProgressError(handled)
    \/ ExtractStreamError
    \/ \E fault \in BOOLEAN : ExtractClose(fault)

SpecEx == InitEx /\ [][NextEx]_vars

\* C19: extract has resolved only if the extraction stream closed, and whenever a stream
\* of the pipeline (the read stream of the cache file, the progress stream, the
\* extraction stream) has errored, the extract call has failed to its caller.
C19_StreamErrorFailsCall ==
    /\ ex.phase = "resolved" => ex.extract = "closed"
    /\ ("errored" \in {ex.read, ex.progress, ex.extract}) => ex.phase = "rejected"

\* C20: the link is created only after the extraction stream closed and only where
\* nothing existed, and once the extraction stream has closed the call completes
\* successfully whatever the link step did.
C20_LinkFailureIgnored ==
    /\ ex.linked => ex.extract = "closed" /\ ex.parent
    /\ (ex.extract = "closed" /\ ex.phase # "piping") => ex.phase = "resolved"

-----------------------------------------------------------------------------
(* The race runs: the processes deploy and delete, their steps interleave *)

InitRace ==
    /\ fs \in RaceDisks
    /\ pre = NoFs
    /\ ret = NoRet
    /\ device = NoDevice
    /\ out = NoOut
    /\ twin = NoDevice
    /\ outTwin = NoOut
    /\ cache = NoCache
    /\ dl = NoDl
    /\ chk = NoChk
    /\ ex = NoEx
    /\ procs = NoProcs

NextRace ==
    \E p \in Procs :
        \/ \E name \in RaceNames : AddBegin(p, name)
        \/ AddTarget(p)
        \/ AddExists(p)
        \/ AddCreate(p)
        \/ AddRead(p)
        \/ AddWrite(p)
        \/ AddConfig(p)
        \/ \E name \in RaceNames : RemRead(p, name)
        \/ RemWrite(p)
        \/ RemRm(p)

SpecRace == InitRace /\ [][NextRace]_vars

DistinctNames(items) ==
    \A i, j \in DOMAIN items : items[i].name = items[j].name => i = j

\* the record process p adds
RecordOf(p) == buildList(RaceDevice(procs[p].name))

\* C21: deploy is a read-modify-write without a lock: what a deploy writes to lists.json
\* is the list it read plus its record, whatever other processes wrote since the read.
\* So when the steps of two deploys of distinct names interleave between read and write,
\* a state is reached in which both have reported success and lists.json holds only one
\* of the two records (C21_Witness).
C21_LostUpdate ==
    \A p \in Procs :
        (procs[p].op = "add" /\ procs[p].wrote /\ procs[p].latest) =>
            fs.lists = ArrayLists(procs[p].snapshot \o <<RecordOf(p)>>)

\* both deploys have reported success, the one that wrote last had read before the other
\* wrote, and lists.json holds its record and not the other one
C21_Witness ==
    \E p, q \in Procs :
        /\ p # q
        /\ procs[p].op = "add" /\ procs[q].op = "add"
        /\ procs[p].name # procs[q].name
        /\ procs[p].pc = "done" /\ procs[q].pc = "done"
        /\ procs[p].outcome = "ok" /\ procs[q].outcome = "ok"
        /\ procs[p].wrote /\ procs[q].wrote
        /\ procs[q].latest /\ procs[q].stale
        /\ listsFind(fs.lists.items, procs[q].name)
        /\ ~listsFind(fs.lists.items, procs[p].name)

\* C25: under every interleaving of the steps of deploy and delete calls of independent
\* processes, starting from a registry whose names are pairwise distinct, lists.json
\* holds, after every write, records whose names are pairwise distinct.
C25_NamesStayDistinct ==
    fs.lists.kind = "array" => DistinctNames(fs.lists.items)

\* a delete wrote a list it had read before a deploy of another name wrote: the deploy
\* reported success and its record is lost, and no name is there twice
C25_Witness ==
    \E p, q \in Procs :
        /\ procs[p].op = "add" /\ procs[p].outcome = "ok" /\ procs[p].wrote
        /\ procs[q].op = "remove" /\ procs[q].wrote
        /\ procs[q].latest /\ procs[q].stale
        /\ procs[p].name # procs[q].name
        /\ ~listsFind(fs.lists.items, procs[p].name)
        /\ DistinctNames(fs.lists.items)

====
